---- MODULE Spec2Model ----
(***************************************************************************)
(* Model of the Claude prompt synchronisation pipeline                     *)
(* (claude_sync.py, utils.py, security_utils.py, elasticsearch_client.py). *)
(*                                                                         *)
(* A Python str is a sequence of one-character strings; an Optional value  *)
(* is a sequence of length 0 (None) or 1; a dict whose shape varies is a   *)
(* record with a "kind" field.                                             *)
(***************************************************************************)
EXTENDS Integers, Sequences, FiniteSets, TLC

VARIABLES
    tree,                 \* ~/.claude/projects: the project directories and their session files
    args,                 \* the command line main is started with
    git_configs,          \* the .git/config files on disk, by directory
    enable_redaction,     \* ClaudeSyncManager.enable_redaction
    selected_repos,       \* selected_repos[r]: ClaudeSyncManager.selected_repos of run r
    selected_owners,      \* selected_owners[r]: ClaudeSyncManager.selected_owners of run r
    exit_status,          \* exit_status[r]: the status the process of run r exited with
    pc,                   \* pc[r]: position of the r-th execution of sync_all
    mongo_client,         \* mongo_client[r]: "none" | "open" | "closed"
    es,                   \* es[r], the es_client.es of run r: "none" | "open" | "closed"
    es_up,                \* es_up[r]: the search index answers the requests of run r
    stats,                \* stats[r]: the run summary built by sync_all
    redaction_stats,      \* redaction_stats[r]: ClaudeSyncManager.redaction_stats
    projects,             \* projects[r]: the list returned by scan_projects
    pidx,                 \* pidx[r]: index of the project the loop of sync_all is at
    sessions,             \* sessions[r]: the list returned by scan_sessions for that project
    sidx,                 \* sidx[r]: index of the session the inner loop is at
    projects_collection,  \* primary store, keyed by project id
    sessions_collection,  \* primary store, keyed by session id
    messages_collection,  \* primary store, keyed by <<session id, index>>
    es_index,             \* secondary index, keyed like messages_collection
    oplog,                \* history: the store and disk operations performed, in order
    recording,            \* history: whether oplog is kept
    faults,               \* number of environment failures injected so far
    snapshot              \* history: the primary store as it was when the latest run began

vars == <<tree, args, git_configs, enable_redaction, selected_repos, selected_owners,
          exit_status, pc, mongo_client, es, es_up, stats,
          redaction_stats, projects, pidx, sessions, sidx, projects_collection,
          sessions_collection, messages_collection, es_index, oplog, recording,
          faults, snapshot>>

(***************************************************************************)
(* Bounds                                                                  *)
(***************************************************************************)
MaxRuns == 2
MaxFaults == 1
MaxLines == 3

Runs == 1..MaxRuns

(***************************************************************************)
(* Text                                                                    *)
(***************************************************************************)
None == <<>>
Some(x) == <<x>>

UpperChars == <<"A","B","C","D","E","F","G","H","I","J","K","L","M","N","O","P","Q","R","S","T","U","V","W","X","Y","Z">>
LowerChars == <<"a","b","c","d","e","f","g","h","i","j","k","l","m","n","o","p","q","r","s","t","u","v","w","x","y","z">>
DigitChars == <<"0","1","2","3","4","5","6","7","8","9">>

Range(s) == {s[i] : i \in DOMAIN s}

\* name = v, then F of the name: v is evaluated once, as an assignment to a
\* local variable evaluates its right-hand side once
With(v, F(_)) == CHOOSE y \in {F(x) : x \in {v}} : TRUE

\* re.IGNORECASE: compare on the lower-cased character
LowerChar(c) ==
    IF c \in Range(UpperChars)
    THEN LowerChars[CHOOSE i \in DOMAIN UpperChars : UpperChars[i] = c]
    ELSE c

\* the literal w occurs in t at position i
OccursAt(t, i, w) ==
    /\ i >= 1
    /\ i + Len(w) - 1 <= Len(t)
    /\ \A k \in 1..Len(w) : t[i + k - 1] = w[k]

\* the same, ignoring case (w is given in lower case)
OccursAtIgnoreCase(t, i, w) ==
    /\ i >= 1
    /\ i + Len(w) - 1 <= Len(t)
    /\ \A k \in 1..Len(w) : LowerChar(t[i + k - 1]) = w[k]

\* w in t (re.search of a literal, or the `in` operator)
Contains(t, w) == \E i \in 1..(Len(t) - Len(w) + 1) : OccursAt(t, i, w)
ContainsIgnoreCase(t, w) == \E i \in 1..(Len(t) - Len(w) + 1) : OccursAtIgnoreCase(t, i, w)

\* str.startswith
StartsWith(t, w) == OccursAt(t, 1, w)

\* t[i..j] (1-based, inclusive)
Slice(t, i, j) == SubSeq(t, i, j)

RECURSIVE ReplaceFrom(_, _, _, _)
ReplaceFrom(t, i, old, new) ==
    IF i > Len(t) THEN <<>>
    ELSE IF OccursAt(t, i, old) THEN new \o ReplaceFrom(t, i + Len(old), old, new)
    ELSE <<t[i]>> \o ReplaceFrom(t, i + 1, old, new)

\* str.replace(old, new): every non-overlapping occurrence, left to right
Replace(t, old, new) == ReplaceFrom(t, 1, old, new)

RECURSIVE CountFrom(_, _, _)
CountFrom(t, i, w) ==
    IF i > Len(t) THEN 0
    ELSE IF OccursAt(t, i, w) THEN 1 + CountFrom(t, i + Len(w), w)
    ELSE CountFrom(t, i + 1, w)

\* len(re.findall(re.escape(w), t)): the non-overlapping occurrences
CountOccurrences(t, w) == CountFrom(t, 1, w)

RECURSIVE Join(_, _)
\* sep.join(parts)
Join(parts, sep) ==
    IF Len(parts) = 0 THEN <<>>
    ELSE IF Len(parts) = 1 THEN parts[1]
    ELSE parts[1] \o sep \o Join(Tail(parts), sep)

\* the least element of a non-empty set of numbers
Min(S) == CHOOSE x \in S : \A y \in S : x <= y

RECURSIVE SplitFrom(_, _, _)
\* the pieces of t from position start on, cut at the occurrences of sep
SplitFrom(t, start, sep) ==
    With({i \in start..Len(t) : OccursAt(t, i, sep)},
         LAMBDA occ :
            IF occ = {} THEN <<SubSeq(t, start, Len(t))>>
            ELSE With(Min(occ),
                      LAMBDA i : <<SubSeq(t, start, i - 1)>> \o SplitFrom(t, i + Len(sep), sep)))

\* str.split(sep): cut at the non-overlapping occurrences of sep, left to right
Split(t, sep) == SplitFrom(t, 1, sep)

\* str.rstrip(chars): drop the trailing characters that are in the set chars
RStrip(t, chars) ==
    With({i \in DOMAIN t : t[i] \notin chars},
         LAMBDA kept : IF kept = {} THEN <<>> ELSE SubSeq(t, 1, CHOOSE i \in kept : \A j \in kept : j <= i))

(***************************************************************************)
(* security_utils.py: the redaction engine                                 *)
(***************************************************************************)
WhitespaceChars == {" ", "\n", "\t"}
QuoteChars == {"\"", "'"}
SeparatorChars == {":", "="}
AlnumChars == Range(UpperChars) \cup Range(LowerChars) \cup Range(DigitChars)

\* sk-[a-zA-Z0-9]{48}
OpenAIKeyLen == 48

\* The patterns of SENSITIVE_PATTERNS that the model covers, in the iteration
\* order of the dict. A label-then-value pattern is
\*     (kw1|kw2|...)\s*[:=]\s*["']?(<class>{min,})["']?
\* with the keyword alternatives spelled out in the order the regex tries them;
\* the value class is `chars`, or its complement when `neg`. A prefix pattern
\* is <prefix><class>{count} and has no group.
SENSITIVE_PATTERNS == <<
    [type |-> "ACCESS_TOKEN", category |-> "api_key",
     keywords |-> << <<"t","o","k","e","n">>,
                     <<"a","c","c","e","s","s","_","t","o","k","e","n">>,
                     <<"a","c","c","e","s","s","-","t","o","k","e","n">>,
                     <<"a","c","c","e","s","s","t","o","k","e","n">> >>,
     neg |-> FALSE, chars |-> AlnumChars \cup {"-", "_", "."}, min |-> 20],
    [type |-> "OPENAI_API_KEY", category |-> "api_key",
     prefix |-> <<"s","k","-">>, chars |-> AlnumChars, count |-> OpenAIKeyLen],
    [type |-> "PASSWORD", category |-> "database",
     keywords |-> << <<"p","a","s","s","w","o","r","d">>,
                     <<"p","a","s","s","w","d">>,
                     <<"p","w","d">> >>,
     neg |-> TRUE, chars |-> QuoteChars \cup WhitespaceChars, min |-> 8],
    [type |-> "DB_PASSWORD", category |-> "database",
     keywords |-> << <<"d","b","_","p","a","s","s">>,
                     <<"d","b","-","p","a","s","s">>,
                     <<"d","b","p","a","s","s">>,
                     <<"d","a","t","a","b","a","s","e","_","p","a","s","s","w","o","r","d">>,
                     <<"d","a","t","a","b","a","s","e","-","p","a","s","s","w","o","r","d">>,
                     <<"d","a","t","a","b","a","s","e","p","a","s","s","w","o","r","d">> >>,
     neg |-> TRUE, chars |-> QuoteChars \cup WhitespaceChars, min |-> 1],
    [type |-> "SECRET_KEY", category |-> "env",
     keywords |-> << <<"s","e","c","r","e","t","_","k","e","y">>,
                     <<"s","e","c","r","e","t","-","k","e","y">>,
                     <<"s","e","c","r","e","t","k","e","y">> >>,
     neg |-> TRUE, chars |-> QuoteChars \cup WhitespaceChars, min |-> 16] >>

\* the text of a type label, as it appears inside a placeholder
TypeChars(type) ==
    CASE type = "ACCESS_TOKEN" -> <<"A","C","C","E","S","S","_","T","O","K","E","N">>
      [] type = "OPENAI_API_KEY" -> <<"O","P","E","N","A","I","_","A","P","I","_","K","E","Y">>
      [] type = "PASSWORD" -> <<"P","A","S","S","W","O","R","D">>
      [] type = "DB_PASSWORD" -> <<"D","B","_","P","A","S","S","W","O","R","D">>
      [] type = "SECRET_KEY" -> <<"S","E","C","R","E","T","_","K","E","Y">>

\* the literals of WHITELIST_PATTERNS, all searched with re.IGNORECASE
\* (\*{3,} and xxx+ are found exactly when their shortest match is)
WHITELIST_PATTERNS == {
    <<"e","x","a","m","p","l","e",".","c","o","m">>,
    <<"l","o","c","a","l","h","o","s","t">>,
    <<"1","2","7",".","0",".","0",".","1">>,
    <<"t","e","s","t">>,
    <<"d","e","m","o">>,
    <<"s","a","m","p","l","e">>,
    <<"p","l","a","c","e","h","o","l","d","e","r">>,
    <<"*","*","*">>,
    <<"x","x","x">> }

\* len(secret_text) < 8 is skipped
MinSecretLen == 8

is_whitelisted_never(text) == FALSE

is_whitelisted(text) == \E w \in WHITELIST_PATTERNS : ContainsIgnoreCase(text, w)

InClass(p, c) == IF p.neg THEN c \notin p.chars ELSE c \in p.chars

RECURSIVE SkipWhitespace(_, _)
\* \s* from position i: the position after the run
SkipWhitespace(t, i) ==
    IF i <= Len(t) /\ t[i] \in WhitespaceChars THEN SkipWhitespace(t, i + 1) ELSE i

RECURSIVE ClassRunEnd(_, _, _)
\* <class>* from position i, greedy: the position after the run
ClassRunEnd(p, t, i) ==
    IF i <= Len(t) /\ InClass(p, t[i]) THEN ClassRunEnd(p, t, i + 1) ELSE i

NoMatch == [ok |-> FALSE, end |-> 0, gs |-> 0, ge |-> 0]

\* (<class>{min,})["']? from position c of t: the group and the end of the match
MatchValue(p, t, c, d) ==
    IF d - c < p.min THEN NoMatch
    ELSE [ok |-> TRUE,
          end |-> IF d <= Len(t) /\ t[d] \in QuoteChars THEN d + 1 ELSE d,
          gs |-> c, ge |-> d - 1]

\* \s*["']? from position b of t, then the value
MatchQuoted(p, t, b) ==
    With(IF b <= Len(t) /\ t[b] \in QuoteChars THEN b + 1 ELSE b,
         LAMBDA c : With(ClassRunEnd(p, t, c), LAMBDA d : MatchValue(p, t, c, d)))

\* [:=] at position a of t, then the rest
MatchSeparator(p, t, a) ==
    IF ~(a <= Len(t) /\ t[a] \in SeparatorChars) THEN NoMatch
    ELSE With(SkipWhitespace(t, a + 1), LAMBDA b : MatchQuoted(p, t, b))

\* the match of pattern p that begins with keyword kw at position i of t
MatchKeyword(p, t, i, kw) ==
    IF ~OccursAtIgnoreCase(t, i, kw) THEN NoMatch
    ELSE With(SkipWhitespace(t, i + Len(kw)), LAMBDA a : MatchSeparator(p, t, a))

\* the first of the alternatives tried that matched
FirstMatch(tried) ==
    IF \A k \in DOMAIN tried : ~tried[k].ok THEN NoMatch
    ELSE tried[CHOOSE k \in DOMAIN tried : tried[k].ok /\ \A j \in 1..(k - 1) : ~tried[j].ok]

\* <prefix><class>{count} at position i of t; match.groups() is empty, so the
\* secret is group(0), the whole match
MatchPrefix(p, t, i) ==
    With(i + Len(p.prefix) + p.count,
         LAMBDA e :
            IF /\ OccursAtIgnoreCase(t, i, p.prefix)
               /\ e - 1 <= Len(t)
               /\ \A j \in (i + Len(p.prefix))..(e - 1) : t[j] \in p.chars
            THEN [ok |-> TRUE, end |-> e, gs |-> i, ge |-> e - 1]
            ELSE NoMatch)

\* re.match of pattern p at position i: for a label-then-value pattern, the
\* first keyword alternative that lets the whole pattern match
MatchAt(p, t, i) ==
    IF "prefix" \in DOMAIN p THEN MatchPrefix(p, t, i)
    ELSE With([k \in DOMAIN p.keywords |-> MatchKeyword(p, t, i, p.keywords[k])],
              LAMBDA tried : FirstMatch(tried))

RECURSIVE FindIter(_, _, _)
\* re.finditer: leftmost matches, each search resuming where the last match ended
FindIter(p, t, i) ==
    With({j \in i..Len(t) : MatchAt(p, t, j).ok},
         LAMBDA starts :
            IF starts = {} THEN <<>>
            ELSE With(MatchAt(p, t, CHOOSE j \in starts : \A k \in starts : j <= k),
                      LAMBDA m : <<m>> \o FindIter(p, t, m.end)))

RECURSIVE KeepSecrets(_, _, _)
\* the body of the `for match in matches` loop of detect_secrets
KeepSecrets(p, t, ms) ==
    IF ms = <<>> THEN <<>>
    ELSE LET secret_text == Slice(t, ms[1].gs, ms[1].ge)
             rest == KeepSecrets(p, t, Tail(ms))
         IN  IF is_whitelisted(secret_text) THEN rest
             ELSE IF Len(secret_text) < MinSecretLen THEN rest
             ELSE <<[text |-> secret_text, type |-> p.type, category |-> p.category]>> \o rest

RECURSIVE DetectFrom(_, _)
DetectFrom(t, k) ==
    IF k > Len(SENSITIVE_PATTERNS) THEN <<>>
    ELSE With(FindIter(SENSITIVE_PATTERNS[k], t, 1),
              LAMBDA matches : KeepSecrets(SENSITIVE_PATTERNS[k], t, matches))
         \o DetectFrom(t, k + 1)

\* detect_secrets(text): list of (matched_text, secret_type, category)
detect_secrets(text) == With(text, LAMBDA t : IF t = <<>> THEN <<>> ELSE DetectFrom(t, 1))

\* insert x behind every element that is at least as long: a stable descending sort
InsertByLength(sorted, x) ==
    LET n == Cardinality({i \in DOMAIN sorted : Len(sorted[i].text) >= Len(x.text)})
    IN  SubSeq(sorted, 1, n) \o <<x>> \o SubSeq(sorted, n + 1, Len(sorted))

\* a redact_text that leaves the secrets in the order they were detected
SortByLengthSkipped(secrets, k) == SubSeq(secrets, 1, k)

RECURSIVE SortByLength(_, _)
\* secrets.sort(key=lambda x: len(x[0]), reverse=True)
SortByLength(secrets, k) ==
    IF k = 0 THEN <<>>
    ELSE With(SortByLength(secrets, k - 1), LAMBDA sorted : InsertByLength(sorted, secrets[k]))

EmptyStats == [ty \in {} |-> 0]

\* stats[ty] = stats.get(ty, 0) + n
AddStat(st, ty, n) ==
    IF ty \in DOMAIN st THEN [st EXCEPT ![ty] = @ + n]
    ELSE [x \in DOMAIN st \cup {ty} |-> IF x = ty THEN n ELSE st[x]]

\* for key, val in add.items(): st[key] = st.get(key, 0) + val
AccumulateStats(st, add) ==
    [ty \in DOMAIN st \cup DOMAIN add |->
        (IF ty \in DOMAIN st THEN st[ty] ELSE 0) + (IF ty \in DOMAIN add THEN add[ty] ELSE 0)]

Placeholder(type) == <<"[","R","E","D","A","C","T","E","D","_">> \o TypeChars(type) \o <<"]">>

RECURSIVE RedactEach(_, _, _, _)
\* the `for secret_text, secret_type, category in secrets` loop of redact_text
RedactEach(secrets, k, redacted, st) ==
    IF k > Len(secrets) THEN [text |-> redacted, stats |-> st]
    ELSE With(<<Replace(redacted, secrets[k].text, Placeholder(secrets[k].type)),
                AddStat(st, secrets[k].type, CountOccurrences(redacted, secrets[k].text))>>,
              LAMBDA next : RedactEach(secrets, k + 1, next[1], next[2]))

\* the loop over the secrets found, longest first
RedactFound(text, found) ==
    With(SortByLength(found, Len(found)),
         LAMBDA secrets : RedactEach(secrets, 1, text, EmptyStats))

\* redact_text(text): (redacted_text, statistics)
redact_text(text) ==
    With(text, LAMBDA t :
        IF t = <<>> THEN [text |-> t, stats |-> EmptyStats]
        ELSE With(detect_secrets(t), LAMBDA found : RedactFound(t, found)))

(***************************************************************************)
(* utils.py: the transcript parser                                         *)
(*                                                                         *)
(* A line of a session file is one of                                      *)
(*   [kind |-> "empty"], [kind |-> "garbage"]   json.loads raises          *)
(*   [kind |-> "scalar"]    a JSON number, true, false or null             *)
(*   [kind |-> "array"]     a JSON array or string without 'message' in it *)
(*   [kind |-> "object", type, timestamp, message]   a record              *)
(* where message is [kind |-> "absent"], [kind |-> "nondict"] or           *)
(* [kind |-> "dict", role, content], and content is [kind |-> "absent"],   *)
(* [kind |-> "null"], [kind |-> "str", text] or [kind |-> "list", blocks]. *)
(* A block is [type, text, content], the last two Optional.                *)
(***************************************************************************)

\* json.loads(line.strip()) raises JSONDecodeError
JSONDecodeError(line) == line.kind \in {"empty", "garbage"}

\* the decoded value is a dict
IsDict(line) == line.kind = "object"

RECURSIVE TextParts(_)
\* [block.get('text', '') for block in content if block.get('type') == 'text']
TextParts(blocks) ==
    IF blocks = <<>> THEN <<>>
    ELSE IF blocks[1].type = "text"
         THEN <<IF blocks[1].text = None THEN <<>> ELSE blocks[1].text[1]>> \o TextParts(Tail(blocks))
         ELSE TextParts(Tail(blocks))

\* content flattening: '\n'.join(text_parts) if text_parts else ''
Flatten(blocks) == Join(TextParts(blocks), <<"\n">>)

RECURSIVE ParseFrom(_, _)
\* the `for line_num, line in enumerate(f, 1)` loop of parse_jsonl_messages
ParseFrom(lines, n) ==
    IF n > Len(lines) THEN <<>>
    ELSE IF JSONDecodeError(lines[n]) THEN ParseFrom(lines, n + 1)
    ELSE IF ~IsDict(lines[n]) THEN <<>>
    ELSE <<[type |-> lines[n].type, timestamp |-> lines[n].timestamp,
            message |-> lines[n].message, line_number |-> n]>> \o ParseFrom(lines, n + 1)

\* parse_jsonl_messages(jsonl_path)
parse_jsonl_messages(lines) == ParseFrom(lines, 1)

CaveatMarker == <<"C","a","v","e","a","t",":"," ","T","h","e"," ","m","e","s","s","a","g","e","s"," ","b","e","l","o","w"," ","w","e","r","e"," ","g","e","n","e","r","a","t","e","d">>
CommandMarker == <<"<","c","o","m","m","a","n","d","-","n","a","m","e",">">>

NoFirstMessage == [first_message |-> None, message_timestamp |-> None]

RECURSIVE FirstUserFrom(_, _)
\* the `for line in f` loop of extract_first_user_message
FirstUserFrom(lines, n) ==
    IF n > Len(lines) THEN NoFirstMessage
    ELSE LET line == lines[n] IN
         IF JSONDecodeError(line) THEN FirstUserFrom(lines, n + 1)
         ELSE IF line.kind = "scalar" THEN NoFirstMessage
         ELSE IF line.kind = "array" THEN FirstUserFrom(lines, n + 1)
         ELSE IF line.message.kind # "dict" THEN FirstUserFrom(lines, n + 1)
         ELSE IF line.message.role # Some("user") THEN FirstUserFrom(lines, n + 1)
         ELSE IF line.message.content.kind = "null" THEN NoFirstMessage
         ELSE LET content == CASE line.message.content.kind = "absent" -> <<>>
                               [] line.message.content.kind = "str" -> line.message.content.text
                               [] line.message.content.kind = "list" -> Flatten(line.message.content.blocks)
              IN  IF Contains(content, CaveatMarker) THEN FirstUserFrom(lines, n + 1)
                  ELSE IF StartsWith(content, CommandMarker) THEN FirstUserFrom(lines, n + 1)
                  ELSE [first_message |-> Some(content), message_timestamp |-> line.timestamp]

\* extract_first_user_message(jsonl_path): (message_content, timestamp)
extract_first_user_message(lines) == FirstUserFrom(lines, 1)

(***************************************************************************)
(* security_utils.py: redact_message_content                               *)
(***************************************************************************)
\* the redaction of an Optional text field of a block
FieldOf(field, r) ==
    IF field = None THEN [value |-> None, stats |-> EmptyStats]
    ELSE [value |-> Some(r.text), stats |-> r.stats]
RedactField(field) ==
    With(redact_text(IF field = None THEN <<>> ELSE field[1]), LAMBDA r : FieldOf(field, r))

BlockOf(block, t, c) ==
    [block |-> [type |-> block.type, text |-> t.value, content |-> c.value],
     stats |-> AccumulateStats(t.stats, c.stats)]

\* the body of the `for item in content` loop of redact_message_content
RedactBlock(block) ==
    With(<<RedactField(block.text), RedactField(block.content)>>,
         LAMBDA tc : BlockOf(block, tc[1], tc[2]))

RECURSIVE SumBlockStats(_, _)
SumBlockStats(rs, k) ==
    IF k = 0 THEN EmptyStats ELSE AccumulateStats(SumBlockStats(rs, k - 1), rs[k].stats)

BlocksOf(rs) == [blocks |-> [k \in DOMAIN rs |-> rs[k].block], stats |-> SumBlockStats(rs, Len(rs))]
RedactBlocks(blocks) ==
    With([k \in DOMAIN blocks |-> RedactBlock(blocks[k])], LAMBDA rs : BlocksOf(rs))

StrOf(r) == [content |-> [kind |-> "str", text |-> r.text], stats |-> r.stats]
ListOf(r) == [content |-> [kind |-> "list", blocks |-> r.blocks], stats |-> r.stats]

\* redact_message_content(content): (redacted content, statistics)
redact_message_content(content) ==
    CASE content.kind = "str" -> With(redact_text(content.text), LAMBDA r : StrOf(r))
      [] content.kind = "list" -> With(RedactBlocks(content.blocks), LAMBDA r : ListOf(r))
      [] OTHER -> [content |-> content, stats |-> EmptyStats]

(***************************************************************************)
(* claude_sync.py: scan_sessions                                           *)
(***************************************************************************)
\* raw_msg.get("message", {}).get("content") if "message" in raw_msg else None,
\* then flattened when it is a list: an Optional text
FlatContent(raw_msg) ==
    IF raw_msg.message.kind # "dict" THEN None
    ELSE CASE raw_msg.message.content.kind = "str" -> Some(raw_msg.message.content.text)
           [] raw_msg.message.content.kind = "list" -> Some(Flatten(raw_msg.message.content.blocks))
           [] OTHER -> None

\* `if self.enable_redaction and content`
RedactionApplies(redact, content) == redact /\ content # None /\ content[1] # <<>>

\* raw_msg.get("message", {}).get(...) raises AttributeError: "message" is not a dict
BuildRaises(raw_msg) == raw_msg.message.kind = "nondict"

\* the Message built from raw_msg, whose flattened content is `content` and
\* whose redaction, when it applies, gave `red`
MessageOf(raw_msg, content, applies, red) ==
    [message |-> [type |-> raw_msg.type,
                  role |-> IF raw_msg.message.kind = "dict" THEN raw_msg.message.role ELSE None,
                  content |-> IF applies THEN Some(red.content.text) ELSE content,
                  timestamp |-> raw_msg.timestamp,
                  raw_data |-> IF applies
                               THEN [raw_msg EXCEPT !.message = [@ EXCEPT !.content = red.content]]
                               ELSE raw_msg],
     stats |-> IF applies THEN red.stats ELSE EmptyStats,
     raises |-> BuildRaises(raw_msg)]

RedactFlat(raw_msg, content, applies) ==
    With(redact_message_content([kind |-> "str", text |-> IF applies THEN content[1] ELSE <<>>]),
         LAMBDA red : MessageOf(raw_msg, content, applies, red))

\* the body of the `for raw_msg in raw_messages` loop: the Message built, the
\* statistics of its redaction, and whether building it raises
BuildMessage(raw_msg, redact) ==
    With(FlatContent(raw_msg),
         LAMBDA content : RedactFlat(raw_msg, content, RedactionApplies(redact, content)))

BuildAll(raws, redact) == [k \in DOMAIN raws |-> BuildMessage(raws[k], redact)]

RECURSIVE SumStats(_, _)
SumStats(built, k) ==
    IF k = 0 THEN EmptyStats ELSE AccumulateStats(SumStats(built, k - 1), built[k].stats)

\* the number of records built before the first one that raises
BuiltBeforeRaise(built) ==
    IF \A k \in DOMAIN built : ~built[k].raises THEN Len(built)
    ELSE (CHOOSE k \in DOMAIN built : built[k].raises /\ \A j \in 1..(k - 1) : ~built[j].raises) - 1

\* the Session object, given the first user message and the records built
SessionOf(project, f, first, built, now) ==
    [ok |-> \A k \in DOMAIN built : ~built[k].raises,
     stats |-> SumStats(built, BuiltBeforeRaise(built)),
     session |-> [id |-> f.stem,
                  project_id |-> project.id,
                  project_path |-> project.path,
                  messages |-> [k \in 1..BuiltBeforeRaise(built) |-> built[k].message],
                  first_message |-> first.first_message,
                  message_timestamp |-> first.message_timestamp,
                  created_at |-> f.created_at,
                  updated_at |-> now,
                  todo_data |-> IF f.todo.kind = "data" THEN Some(f.todo.text) ELSE None]]

\* the body of the `for session_file in project_dir.glob("*.jsonl")` loop for
\* one file: the Session built (ok) or the exception caught (~ok), and the
\* redaction statistics accumulated until then
ScanSessionFile(project, f, redact, now) ==
    With(<<extract_first_user_message(f.lines), parse_jsonl_messages(f.lines)>>,
         LAMBDA read : With(BuildAll(read[2], redact),
                            LAMBDA built : SessionOf(project, f, read[1], built, now)))

RECURSIVE OkSessions(_, _)
OkSessions(scans, k) ==
    IF k > Len(scans) THEN <<>>
    ELSE (IF scans[k].ok THEN <<scans[k].session>> ELSE <<>>) \o OkSessions(scans, k + 1)

RECURSIVE FailedSessions(_, _)
FailedSessions(scans, k) ==
    IF k > Len(scans) THEN <<>>
    ELSE (IF scans[k].ok THEN <<>> ELSE <<scans[k].session.id>>) \o FailedSessions(scans, k + 1)

\* the sessions appended, the statistics accumulated, the files that raised
CollectScans(scans) ==
    [sessions |-> OkSessions(scans, 1),
     stats |-> SumStats(scans, Len(scans)),
     failed |-> FailedSessions(scans, 1)]

\* the directory of the tree with the given name
DirOf(t, id) == t[CHOOSE k \in DOMAIN t : t[k].id = id]

ScanFiles(project, files, redact, now) ==
    With([k \in DOMAIN files |-> ScanSessionFile(project, files[k], redact, now)],
         LAMBDA scans : CollectScans(scans))

\* scan_sessions(project): the sessions built, the redaction statistics to add
\* and the files whose processing raised
scan_sessions(t, project, redact, now) ==
    With(DirOf(t, project.id).files, LAMBDA files : ScanFiles(project, files, redact, now))

(***************************************************************************)
(* claude_sync.py: the ownership resolver                                  *)
(*                                                                         *)
(* A path is a text. The version-control configs on disk are a function    *)
(* from directories, each the sequence of the components of its absolute   *)
(* path, to what .git/config holds there:                                  *)
(*   [kind |-> "unparseable"]   configparser raises on it                  *)
(*   [kind |-> "no_origin"]     no section remote "origin"                 *)
(*   [kind |-> "origin", url]   the url of remote "origin" ('' if unset)   *)
(* A directory outside the domain has no .git/config.                      *)
(***************************************************************************)
\* the hosts of the URL patterns, in the order they are tried
HostPatterns == << <<"g","i","t","h","u","b",".","c","o","m">>,
                   <<"g","i","t","l","a","b",".","c","o","m">>,
                   <<"b","i","t","b","u","c","k","e","t",".","o","r","g">> >>

\* the characters url.rstrip('.git') removes from the end
GitSuffixChars == {".", "g", "i", "t"}

NoRemote == [ok |-> FALSE, owner |-> <<>>, repo |-> <<>>]

\* the end of the run of characters outside `stop` that begins at position a
RunEnd(u, a, stop) ==
    With({i \in a..Len(u) : u[i] \in stop},
         LAMBDA stops : IF stops = {} THEN Len(u) + 1 ELSE Min(stops))

\* ([^/]+)/([^/\s]+) from position a of u, the owner ending before position b
OwnerRepoAt(u, a, b) ==
    IF ~(b > a /\ b <= Len(u) /\ u[b] = "/") THEN NoRemote
    ELSE With(RunEnd(u, b + 1, {"/"} \cup WhitespaceChars),
              LAMBDA c : IF c = b + 1 THEN NoRemote
                         ELSE [ok |-> TRUE, owner |-> SubSeq(u, a, b - 1),
                               repo |-> SubSeq(u, b + 1, c - 1)])

\* re.match of host[:/]([^/]+)/([^/\s]+) at position i of u
HostMatchAt(host, u, i) ==
    IF ~(OccursAt(u, i, host) /\ i + Len(host) <= Len(u) /\ u[i + Len(host)] \in {":", "/"})
    THEN NoRemote
    ELSE With(i + Len(host) + 1, LAMBDA a : OwnerRepoAt(u, a, RunEnd(u, a, {"/"})))

\* re.search(pattern, url): the leftmost position where the pattern matches
SearchHost(host, u) ==
    With({i \in DOMAIN u : HostMatchAt(host, u, i).ok},
         LAMBDA starts : IF starts = {} THEN NoRemote ELSE HostMatchAt(host, u, Min(starts)))

\* the `for pattern in patterns` loop: the first pattern that is found
SearchPatterns(u) ==
    With([k \in DOMAIN HostPatterns |-> SearchHost(HostPatterns[k], u)],
         LAMBDA tried : IF \A k \in DOMAIN tried : ~tried[k].ok THEN NoRemote
                        ELSE tried[Min({k \in DOMAIN tried : tried[k].ok})])

\* url = url.rstrip('.git'), then the patterns
ParseRemote(url) == SearchPatterns(RStrip(url, GitSuffixChars))

\* Path(base_path).parts without the root: empty and "." components are dropped
PathParts(path) == SelectSeq(Split(path, <<"/">>), LAMBDA c : c # <<>> /\ c # <<".">>)

\* what the directory holds for the resolver: the remote of its config, if
\* there is a config that parses and has a remote "origin"
RemoteOf(fs, dir) ==
    IF dir \in DOMAIN fs /\ fs[dir].kind = "origin" THEN ParseRemote(fs[dir].url) ELSE NoRemote

RECURSIVE WalkUp(_, _, _)
\* the `while current_path != current_path.parent` loop, current_path being the
\* first n components
WalkUp(fs, parts, n) ==
    IF n = 0 THEN <<None, None>>
    ELSE With(RemoteOf(fs, SubSeq(parts, 1, n)),
              LAMBDA m : IF m.ok THEN <<Some(m.owner), Some(m.repo)>> ELSE WalkUp(fs, parts, n - 1))

\* extract_repo_info_from_git_config(base_path): (owner, repo_name)
extract_repo_info_from_git_config(fs, base_path) ==
    With(PathParts(base_path), LAMBDA parts : WalkUp(fs, parts, Len(parts)))

WorkspaceMarker == <<"/","w","o","r","k","s","p","a","c","e","/">>
ProjectsMarker == <<"/","p","r","o","j","e","c","t","s","/">>

\* the branch of extract_repo_info for a path that holds '/workspace/'
FromWorkspacePart(workspace_part) ==
    IF Contains(workspace_part, ProjectsMarker)
    THEN <<None, Some(Split(Split(workspace_part, ProjectsMarker)[2], <<"/">>)[1])>>
    ELSE <<None, Some(Split(workspace_part, <<"/">>)[1])>>

\* the path heuristics of extract_repo_info
FromPath(project_path) ==
    IF Contains(project_path, WorkspaceMarker)
    THEN With(Split(project_path, WorkspaceMarker)[2], LAMBDA part : FromWorkspacePart(part))
    ELSE With(Split(RStrip(project_path, {"/"}), <<"/">>),
              LAMBDA parts : <<None, Some(parts[Len(parts)])>>)

\* `if owner and repo`
Truthy(x) == x # None /\ x[1] # <<>>

\* extract_repo_info(project_path): (owner, repo_name)
extract_repo_info(fs, project_path) ==
    With(extract_repo_info_from_git_config(fs, project_path),
         LAMBDA git : IF Truthy(git[1]) /\ Truthy(git[2]) THEN git ELSE FromPath(project_path))

(***************************************************************************)
(* claude_sync.py: scan_projects                                           *)
(***************************************************************************)
\* `if self.selected_repos:` / `if self.selected_owners:` (None and the empty
\* set are both false)
FilterSet(selected) == selected # None /\ selected[1] # {}

\* a filter that lets every name through
NameAllowedAlways(selected, name) == TRUE

\* a filter that lets a missing name through
NameAllowedOrAbsent(selected, name) == ~Truthy(name) \/ name[1] \in selected[1]

\* not (`not name or name not in selected`)
NameAllowed(selected, name) == Truthy(name) /\ name[1] \in selected[1]

\* neither filter of scan_projects skips a directory whose resolver result is info
PassesFilters(repos, owners, info) ==
    /\ FilterSet(repos) => NameAllowed(repos, info[2])
    /\ FilterSet(owners) => NameAllowed(owners, info[1])

\* the directories scan_projects keeps: those that do not raise and that the
\* filters let through
Kept(t, fs, repos, owners, failing) ==
    {k \in DOMAIN t : /\ t[k].id \notin failing
                      /\ PassesFilters(repos, owners, extract_repo_info(fs, t[k].path))}

RECURSIVE ScanDirsFrom(_, _, _, _)
\* the `for project_dir in self.projects_dir.iterdir()` loop; the directories
\* outside `kept` are skipped by a `continue`
ScanDirsFrom(t, k, kept, now) ==
    IF k > Len(t) THEN <<>>
    ELSE IF k \notin kept THEN ScanDirsFrom(t, k + 1, kept, now)
    ELSE <<[id |-> t[k].id,
            path |-> t[k].path,
            sessions |-> [j \in DOMAIN t[k].files |-> t[k].files[j].stem],
            created_at |-> t[k].created_at,
            updated_at |-> now]>> \o ScanDirsFrom(t, k + 1, kept, now)

\* scan_projects(): the Project objects, in directory order; the directories
\* in `failing` raise inside the try
scan_projects(t, fs, repos, owners, failing, now) ==
    With(Kept(t, fs, repos, owners, failing), LAMBDA kept : ScanDirsFrom(t, 1, kept, now))

(***************************************************************************)
(* The stores                                                              *)
(***************************************************************************)
EmptyCollection == [k \in {} |-> 0]

\* the greatest element of a non-empty set of numbers
Max(S) == CHOOSE x \in S : \A y \in S : y <= x

\* update_one({key}, {"$set": doc}, upsert=True) when doc sets every field
Put(coll, key, doc) == [k \in DOMAIN coll \cup {key} |-> IF k = key THEN doc ELSE coll[k]]

\* sync_project_to_mongodb: project.model_dump() plus last_synced, $set into
\* the document with that id; the cached statistics of an existing document stay
ProjectDoc(coll, project, now) ==
    [id |-> project.id,
     path |-> project.path,
     sessions |-> project.sessions,
     created_at |-> project.created_at,
     updated_at |-> project.updated_at,
     last_synced |-> now,
     session_count |-> IF project.id \in DOMAIN coll THEN coll[project.id].session_count ELSE None,
     message_count |-> IF project.id \in DOMAIN coll THEN coll[project.id].message_count ELSE None,
     last_conversation_date |->
        IF project.id \in DOMAIN coll THEN coll[project.id].last_conversation_date ELSE None,
     stats_updated_at |->
        IF project.id \in DOMAIN coll THEN coll[project.id].stats_updated_at ELSE None]

\* sync_session_to_mongodb: session.model_dump(exclude={"messages"}) plus
\* last_synced and message_count
SessionDoc(session, now) ==
    [id |-> session.id,
     project_id |-> session.project_id,
     project_path |-> session.project_path,
     first_message |-> session.first_message,
     message_timestamp |-> session.message_timestamp,
     created_at |-> session.created_at,
     updated_at |-> session.updated_at,
     todo_data |-> session.todo_data,
     last_synced |-> now,
     message_count |-> Len(session.messages)]

\* a key taken from an insertion counter instead of the position in the file
MessageIdFromCounter(session_id, idx) ==
    <<session_id, idx + Cardinality(DOMAIN messages_collection)>>

\* message_id = f"{session.id}_{idx}": the pair determines the string and the
\* string the pair (idx is a decimal number, so the last "_" separates them)
MessageId(session_id, idx) == <<session_id, idx>>

\* message.model_dump() plus session_id, project_id, message_index, last_synced
\* for the message at 0-based position idx
MessageDoc(session, idx, now) ==
    [type |-> session.messages[idx + 1].type,
     role |-> session.messages[idx + 1].role,
     content |-> session.messages[idx + 1].content,
     timestamp |-> session.messages[idx + 1].timestamp,
     raw_data |-> session.messages[idx + 1].raw_data,
     session_id |-> session.id,
     project_id |-> session.project_id,
     message_index |-> idx,
     last_synced |-> now]

\* messages_collection.bulk_write(message_operations), the first n operations
\* of the ordered batch applied
BulkWrite(coll, session, n, now) ==
    [k \in DOMAIN coll \cup {MessageId(session.id, idx) : idx \in 0..(n - 1)} |->
        IF \E idx \in 0..(n - 1) : k = MessageId(session.id, idx)
        THEN MessageDoc(session, Max({idx \in 0..(n - 1) : k = MessageId(session.id, idx)}), now)
        ELSE coll[k]]

\* the document index_messages_bulk builds for a message
EsDoc(session, idx, project_data, now) ==
    [id |-> MessageId(session.id, idx),
     session_id |-> session.id,
     project_id |-> session.project_id,
     project_path |-> project_data.path,
     message_index |-> idx,
     type |-> session.messages[idx + 1].type,
     role |-> session.messages[idx + 1].role,
     content |-> session.messages[idx + 1].content,
     timestamp |-> session.messages[idx + 1].timestamp,
     created_at |-> now,
     last_synced |-> now]

\* index_messages_bulk(es_messages, project_data), the first n actions indexed
BulkIndex(index, session, n, project_data, now) ==
    [k \in DOMAIN index \cup {MessageId(session.id, idx) : idx \in 0..(n - 1)} |->
        IF \E idx \in 0..(n - 1) : k = MessageId(session.id, idx)
        THEN EsDoc(session, Max({idx \in 0..(n - 1) : k = MessageId(session.id, idx)}),
                   project_data, now)
        ELSE index[k]]

\* an update_project_statistics that looks at the sessions first
StatisticsOfSessionsFirst(project_id, scoll, mcoll, now) ==
    LET ss == {k \in DOMAIN scoll : scoll[k].project_id = project_id}
        ms == {k \in DOMAIN mcoll : mcoll[k].project_id = project_id}
        mts == {mcoll[k].timestamp[1] : k \in {m \in ms : mcoll[m].timestamp # None}}
        sts == {scoll[k].message_timestamp[1] : k \in {x \in ss : scoll[x].message_timestamp # None}}
    IN  [session_count |-> Some(Cardinality(ss)),
         message_count |-> Some(Cardinality(ms)),
         last_conversation_date |->
            IF sts # {} THEN Some(Max(sts))
            ELSE IF mts # {} THEN Some(Max(mts))
            ELSE None,
         stats_updated_at |-> Some(now)]

\* update_project_statistics: the $set applied to the project document
StatisticsOf(project_id, scoll, mcoll, now) ==
    LET ss == {k \in DOMAIN scoll : scoll[k].project_id = project_id}
        ms == {k \in DOMAIN mcoll : mcoll[k].project_id = project_id}
        mts == {mcoll[k].timestamp[1] : k \in {m \in ms : mcoll[m].timestamp # None}}
        sts == {scoll[k].message_timestamp[1] : k \in {x \in ss : scoll[x].message_timestamp # None}}
    IN  [session_count |-> Some(Cardinality(ss)),
         message_count |-> Some(Cardinality(ms)),
         last_conversation_date |->
            IF mts # {} THEN Some(Max(mts))
            ELSE IF sts # {} THEN Some(Max(sts))
            ELSE None,
         stats_updated_at |-> Some(now)]

(***************************************************************************)
(* The source trees the runs are given                                     *)
(***************************************************************************)
TextPlain == <<"h","i">>
\* the password pattern finds Sw0rdf1sh9 in it
TextSecret == <<"p","w","d","=","S","w","0","r","d","f","1","s","h","9">>

LineEmpty == [kind |-> "empty"]
LineGarbage == [kind |-> "garbage"]
LineScalar == [kind |-> "scalar"]
LineArray == [kind |-> "array"]

Record(type, timestamp, message) ==
    [kind |-> "object", type |-> type, timestamp |-> timestamp, message |-> message]
Dict(role, content) == [kind |-> "dict", role |-> Some(role), content |-> content]
Str(text) == [kind |-> "str", text |-> text]
Blocks(blocks) == [kind |-> "list", blocks |-> blocks]
TextBlock(text) == [type |-> "text", text |-> Some(text), content |-> None]
ToolResult(text) == [type |-> "tool_result", text |-> None, content |-> Some(text)]

\* a user turn whose content is a plain string holding a secret
LineUserSecret == Record(Some("user"), Some(1), Dict("user", Str(TextSecret)))
\* an assistant turn whose content is a list with one text block
LineAssistant == Record(Some("assistant"), Some(2), Dict("assistant", Blocks(<<TextBlock(TextPlain)>>)))
\* a tool result: a list with no text block, the secret in the block's content
LineToolOnly == Record(Some("user"), Some(3), Dict("user", Blocks(<<ToolResult(TextSecret)>>)))
\* a list with a text block and a tool result, both holding the secret
LineMixed == Record(Some("user"), None,
                    Dict("user", Blocks(<<TextBlock(TextSecret), ToolResult(TextSecret)>>)))
\* a record without a "message" key
LineSummary == Record(Some("summary"), None, [kind |-> "absent"])
\* a record whose "message" is not a dict
LineNonDict == Record(Some("user"), Some(4), [kind |-> "nondict"])
\* a record whose message has no content
LineNoContent == Record(Some("user"), Some(5), Dict("user", [kind |-> "absent"]))

Lines == {LineEmpty, LineGarbage, LineScalar, LineArray, LineUserSecret, LineAssistant,
          LineToolOnly, LineMixed, LineSummary, LineNonDict, LineNoContent}

NoTodo == [kind |-> "absent"]
TodoUnreadable == [kind |-> "unreadable"]
Todo(text) == [kind |-> "data", text |-> text]

SessionFile(stem, lines, todo) == [stem |-> stem, lines |-> lines, created_at |-> 0, todo |-> todo]
\* a project directory; path is the project path scan_projects works out for it
\* (the projectPath found in its session files, else the decoded name)
ProjectDir(id, path, files) == [id |-> id, path |-> path, created_at |-> 0, files |-> files]

\* decode_project_path of the names p1 and p2, which hold no '-'
PathP1 == <<"p","1">>
PathP2 == <<"p","2">>

FileA == <<LineUserSecret, LineAssistant, LineToolOnly>>
FileB == <<LineGarbage, LineMixed, LineEmpty, LineSummary>>
FileC == <<LineAssistant, LineScalar, LineUserSecret>>
FileD == <<LineNoContent, LineNonDict>>
FileE == <<LineAssistant>>

\* two project directories; p2 is empty or holds a session file named s1 as
\* p1 does, with fewer or with more records than the one of p1
Trees ==
    { << ProjectDir("p1", PathP1, <<SessionFile("s1", FileB, Todo(TextSecret)),
                            SessionFile("s2", b, TodoUnreadable)>>),
         ProjectDir("p2", PathP2, IF c = <<>> THEN <<>> ELSE <<SessionFile("s1", c, NoTodo)>>) >>
      : b \in {FileC, FileD}, c \in {<<>>, FileE, FileA} }

\* the tree in which a session cannot be built and both projects hold an s1
LiveTrees == {t \in Trees : t[1].files[2].lines = FileD /\ t[2].files # <<>> /\ t[2].files[1].lines = FileE}

\* every file of at most MaxLines lines
RECURSIVE FilesOfLength(_)
FilesOfLength(n) ==
    IF n = 0 THEN {<<>>} ELSE {Append(f, l) : f \in FilesOfLength(n - 1), l \in Lines}
AllFiles == UNION {FilesOfLength(n) : n \in 0..MaxLines}

\* one project directory with one session file
FileTrees == { << ProjectDir("p1", PathP1, <<SessionFile("s1", f, Todo(TextSecret))>>) >> : f \in AllFiles }

(***************************************************************************)
(* claude_sync.py: main, up to the call of sync_all                        *)
(*                                                                         *)
(* The command line is [repos, owners, all, list, choice]: the names given *)
(* to --repos and to --owners (None when the option is absent), the flags  *)
(* --all and --list, and the answer to "Enter your choice (1-3)" should    *)
(* main ask. ~/.claude exists.                                             *)
(***************************************************************************)
\* get_available_repos(claude_dir)
get_available_repos(t, fs) ==
    {info[2][1] : info \in {x \in {extract_repo_info(fs, t[k].path) : k \in DOMAIN t} : Truthy(x[2])}}

\* get_available_owners(claude_dir): from the version-control configs only
get_available_owners(t, fs) ==
    {info[1][1] : info \in {x \in {extract_repo_info_from_git_config(fs, t[k].path) : k \in DOMAIN t}
                                : Truthy(x[1])}}

\* what select_repositories / select_owners can return: None for the answer
\* 0, or the non-empty set of the names picked
Selections(available) == {None} \cup {Some(S) : S \in (SUBSET available) \ {{}}}

\* main asks on the terminal
Interactive(a) == ~a.list /\ a.repos = None /\ a.owners = None /\ ~a.all

\* sys.exit(code)
Exits(code) == [exit |-> Some(code), repos |-> None, owners |-> None]
\* main goes on to ClaudeSyncManager(selected_repos, selected_owners, ...)
Proceeds(repos, owners) == [exit |-> None, repos |-> repos, owners |-> owners]

\* the names given that are available, as the repository filter
ValidRepos(given, available) ==
    IF given \cap available = {} THEN Exits(1) ELSE Proceeds(Some(given \cap available), None)

\* the names given that are available, as the owner filter
ValidOwners(given, available) ==
    IF given \cap available = {} THEN Exits(1) ELSE Proceeds(None, Some(given \cap available))

\* the `if args.repos: ... elif args.owners: ... elif args.all: ... else: ...`
\* of main; picked_repos and picked_owners are what the user would select
Selection(a, available_repos, available_owners, picked_repos, picked_owners) ==
    IF a.repos # None THEN ValidRepos(a.repos[1], available_repos)
    ELSE IF a.owners # None THEN ValidOwners(a.owners[1], available_owners)
    ELSE IF a.all THEN Proceeds(None, None)
    ELSE IF available_owners # {}
         THEN CASE a.choice = 1 -> Proceeds(None, picked_owners)
                [] a.choice = 2 -> Proceeds(picked_repos, None)
                [] OTHER -> Proceeds(None, None)
    ELSE IF available_repos # {} THEN Proceeds(picked_repos, None)
    ELSE Proceeds(None, None)

\* a main that passes both options on to the manager
main_accepting_both(a, available_repos, available_owners, picked_repos, picked_owners) ==
    IF a.list THEN Exits(0)
    ELSE IF a.repos # None /\ a.owners # None THEN Proceeds(a.repos, a.owners)
    ELSE Selection(a, available_repos, available_owners, picked_repos, picked_owners)

\* main from the parsing of the arguments to the construction of the manager
main_before_sync(a, available_repos, available_owners, picked_repos, picked_owners) ==
    IF a.list THEN Exits(0)
    ELSE IF a.repos # None /\ a.owners # None THEN Exits(1)
    ELSE Selection(a, available_repos, available_owners, picked_repos, picked_owners)

\* main after sync_all returned: the summary is printed and main returns
main_after_sync(st) == 0

\* --all
ArgsAll == [repos |-> None, owners |-> None, all |-> TRUE, list |-> FALSE, choice |-> 3]

\* no directory holds a .git/config
NoConfigs == [d \in {} |-> 0]

(***************************************************************************)
(* The working directories, their version-control configs and the command  *)
(* lines the filtered runs are given                                       *)
(***************************************************************************)
RepoA == <<"r","e","p","o","A">>
RepoApp == <<"a","p","p">>
RepoWidget == <<"w","i","d","g","e","t">>
RepoGit == <<"g","i","t">>
RepoZzz == <<"z","z","z">>
OwnerAcme == <<"a","c","m","e">>
OwnerCorp == <<"c","o","r","p">>
OwnerNobody == <<"n","o","b","o","d","y">>

Https == <<"h","t","t","p","s",":","/","/">>
GitAt == <<"g","i","t","@">>
DotGit == <<".","g","i","t">>

\* a .git/config whose remote "origin" is the repository owner/repo at the
\* k-th host, written URL-style (https://host/owner/repo) or SSH-style
\* (git@host:owner/repo), with or without the .git suffix; the components
\* the url was written from are kept beside it
Remote(style, k, owner, repo, dotgit) ==
    [kind |-> "origin",
     url |-> (IF style = "url" THEN Https \o HostPatterns[k] \o <<"/">>
              ELSE GitAt \o HostPatterns[k] \o <<":">>)
             \o owner \o <<"/">> \o repo \o (IF dotgit THEN DotGit ELSE <<>>),
     host |-> k, owner |-> owner, repo |-> repo]

\* the working directories of the four projects
PathRepoA == <<"/","u","/","r","e","p","o","A">>
PathHeuristic == <<"/","u","/","w","o","r","k","s","p","a","c","e","/","X","/","p","r","o","j","e","c","t","s","/","r","e","p","o","A">>
PathNested == <<"/","u","/","w","o","r","k","s","p","a","c","e","/","X","/","p","r","o","j","e","c","t","s","/","Y","/","s","r","c">>
PathBare == <<"/","u","/","w","o","r","k","s","p","a","c","e","/">>

\* the checkout that holds PathNested
DirY == << <<"u">>, <<"w","o","r","k","s","p","a","c","e">>, <<"X">>, <<"p","r","o","j","e","c","t","s">>, <<"Y">> >>
DirRepoA == << <<"u">>, <<"r","e","p","o","A">> >>

\* what the .git/config of DirY can be
ConfigsOfY ==
    {[kind |-> "unparseable"], [kind |-> "no_origin"]}
    \cup {Remote(sh[1], sh[2], OwnerCorp, repo, dotgit) :
            sh \in {<<"url", 1>>, <<"ssh", 1>>, <<"url", 2>>, <<"ssh", 3>>},
            repo \in {RepoApp, RepoWidget, RepoGit}, dotgit \in BOOLEAN}

\* /u/repoA is a checkout of github.com/acme/repoA; /u/workspace/X/projects/Y
\* holds one of ConfigsOfY
ConfigSets ==
    {[d \in {DirRepoA, DirY} |->
        IF d = DirRepoA THEN Remote("url", 1, OwnerAcme, RepoA, TRUE) ELSE c] : c \in ConfigsOfY}

\* the directory of PathNested itself and an ancestor of DirY
DirSrc == Append(DirY, <<"s","r","c">>)
DirX == SubSeq(DirY, 1, 3)

\* a config whose remote "origin" is at a host none of the patterns names
RemoteElsewhere ==
    [kind |-> "origin",
     url |-> Https \o <<"e","x","a","m","p","l","e",".","c","o","m","/">> \o OwnerCorp
             \o <<"/">> \o RepoApp,
     host |-> 0, owner |-> OwnerCorp, repo |-> RepoApp]

\* what a directory on the walk can hold: no config, a config that does not
\* parse, one without a remote "origin", one whose origin is at an unknown
\* host, and origins at the known hosts
ConfigsOnWalk ==
    {[kind |-> "absent"], [kind |-> "unparseable"], [kind |-> "no_origin"], RemoteElsewhere,
     Remote("url", 1, OwnerCorp, RepoApp, TRUE), Remote("ssh", 2, OwnerCorp, RepoApp, FALSE),
     Remote("ssh", 3, OwnerCorp, RepoWidget, FALSE), Remote("url", 1, OwnerCorp, RepoGit, TRUE)}

\* the configs on disk when directory d holds c ("absent": no file)
Holding(fs, d, c) ==
    IF c.kind = "absent" THEN fs
    ELSE [x \in DOMAIN fs \cup {d} |-> IF x = d THEN c ELSE fs[x]]

\* /u/repoA is a checkout of github.com/acme/repoA; the directory of
\* PathNested, its parent and the parent's grandparent each hold one of
\* ConfigsOnWalk
WalkConfigSets ==
    {Holding(Holding(Holding([d \in {DirRepoA} |-> Remote("url", 1, OwnerAcme, RepoA, TRUE)],
                             DirX, far), DirY, mid), DirSrc, near)
        : near \in ConfigsOnWalk,
          mid \in {[kind |-> "absent"], [kind |-> "no_origin"],
                   Remote("url", 1, OwnerAcme, RepoApp, FALSE)},
          far \in {[kind |-> "absent"], Remote("ssh", 1, OwnerNobody, RepoZzz, TRUE)}}

\* --all, or a filter on owners or on repository names
WalkArgs ==
    {ArgsAll}
    \cup {[repos |-> rp, owners |-> None, all |-> FALSE, list |-> FALSE, choice |-> 3]
            : rp \in {Some({RepoApp}), Some({RepoZzz})}}
    \cup {[repos |-> None, owners |-> ow, all |-> FALSE, list |-> FALSE, choice |-> 3]
            : ow \in {Some({OwnerCorp}), Some({OwnerAcme, OwnerNobody})}}

\* the texts of the whitelist and minimum-length cases
TextLocalhost == <<"p","a","s","s","w","o","r","d",":"," ","l","o","c","a","l","h","o","s","t">>
TextShort == <<"d","b","_","p","a","s","s","=","a","b","c">>
TextKept == <<"d","b","_","p","a","s","s","=","h","u","n","t","e","r","2","2">>

LineLocalhost == Record(Some("user"), Some(1), Dict("user", Str(TextLocalhost)))
LineShort == Record(Some("user"), Some(2), Dict("user", Str(TextShort)))
LineKept == Record(Some("user"), Some(3), Dict("user", Str(TextKept)))

\* user turns: the synthetic preamble, a command invocation, a text that
\* quotes the preamble marker after other words, and an access token
TextCaveat == CaveatMarker \o <<" ","b","y"," ","m","e">>
TextCommand == CommandMarker \o <<"l","s">>
TextQuoted == <<"r","e",":"," ">> \o CaveatMarker
TokenChars == <<"s","k","-">> \o UpperChars \o SubSeq(LowerChars, 1, 18)
TextToken == <<"t","o","k","e","n",":"," ">> \o TokenChars
\* sk- and 48 letters and digits
TextOpenAIKey == <<"u","s","e"," ","s","k","-">> \o UpperChars \o SubSeq(LowerChars, 1, 12) \o DigitChars

LineCaveat == Record(Some("user"), Some(1), Dict("user", Str(TextCaveat)))
LineCommand == Record(Some("user"), Some(2), Dict("user", Blocks(<<TextBlock(TextCommand)>>)))
LineQuoted == Record(Some("user"), Some(3), Dict("user", Str(TextQuoted)))
LineOrdinary == Record(Some("user"), Some(4), Dict("user", Blocks(<<TextBlock(TextPlain)>>)))
LineToken == Record(Some("user"), Some(5), Dict("user", Str(TextToken)))
LineOpenAIKey == Record(Some("user"), Some(6), Dict("user", Str(TextOpenAIKey)))

TextLines == {LineCaveat, LineCommand, LineQuoted, LineOrdinary, LineToken, LineOpenAIKey, LineAssistant}

\* every file of at most MaxLines of these lines
RECURSIVE TextFilesOfLength(_)
TextFilesOfLength(n) ==
    IF n = 0 THEN {<<>>} ELSE {Append(f, l) : f \in TextFilesOfLength(n - 1), l \in TextLines}
TextFiles == UNION {TextFilesOfLength(n) : n \in 0..MaxLines}

\* one project directory with one session file
TextTrees == { << ProjectDir("p1", PathP1, <<SessionFile("s1", f, NoTodo)>>) >> : f \in TextFiles }

\* texts for the substitution loop of redact_text
\* a secret that is a fragment of a longer one found after it, both passwords
TextNested == <<"p","w","d","=","h","u","n","t","e","r","2","h"," ","p","a","s","s","w","o","r","d","=","h","u","n","t","e","r","2","h","u","n","t","e","r","2">>
\* the same with secrets of two types
TextNestedTypes == <<"d","b","_","p","a","s","s","=","h","u","n","t","e","r","2","h"," ","p","a","s","s","w","o","r","d","=","h","u","n","t","e","r","2","h","u","n","t","e","r","2">>
\* a secret that occurs twice
TextTwice == <<"p","w","d","=","h","u","n","t","e","r","2","h"," ","o","r"," ","h","u","n","t","e","r","2","h">>
\* one secret text found by the patterns of two types
TextTwoTypes == <<"d","a","t","a","b","a","s","e","_","p","a","s","s","w","o","r","d","=","h","u","n","t","e","r","2","h","u","n","t","e","r","2">>
\* a secret found only inside a longer secret of another type
TextInside == <<"s","e","c","r","e","t","_","k","e","y","=","p","w","d","=","h","u","n","t","e","r","2","h","u","n","t","e","r","2">>

RedactTexts == {TextNested, TextNestedTypes, TextTwice, TextTwoTypes, TextInside}

\* a user record holding the text
LineOf(text) == Record(Some("user"), Some(1), Dict("user", Str(text)))

\* one project directory with one session file of one or two such records
RedactTrees ==
    { << ProjectDir("p1", PathP1, <<SessionFile("s1", f, NoTodo)>>) >>
        : f \in {<<LineOf(a)>> : a \in RedactTexts}
                \cup {<<LineOf(a), LineOf(b)>> : a \in RedactTexts, b \in RedactTexts} }

\* four project directories: a checkout, a path that only the heuristics
\* resolve (to repoA), a path below a checkout that the heuristics would
\* resolve to Y, and a path that resolves to no repository name
FilterTrees ==
    { << ProjectDir("d1", PathRepoA, <<SessionFile("s1", <<LineLocalhost, LineShort, LineKept>>, NoTodo)>>),
         ProjectDir("d2", PathHeuristic, <<SessionFile("s2", <<LineAssistant>>, NoTodo)>>),
         ProjectDir("d3", PathNested, <<>>),
         ProjectDir("d4", PathBare, <<>>) >> }

\* the command lines: --repos and/or --owners, --all, --list, or none of them
\* and an answer to the question main then asks
FilterArgs ==
    ({[repos |-> rp, owners |-> ow, all |-> FALSE, list |-> FALSE, choice |-> 3] :
        rp \in {None, Some({RepoA}), Some({RepoA, RepoZzz}), Some({RepoZzz})},
        ow \in {None, Some({OwnerAcme}), Some({OwnerCorp, OwnerNobody}), Some({OwnerNobody})}}
     \ {[repos |-> None, owners |-> None, all |-> FALSE, list |-> FALSE, choice |-> 3]})
    \cup {ArgsAll, [ArgsAll EXCEPT !.list = TRUE]}
    \cup {[repos |-> None, owners |-> None, all |-> FALSE, list |-> FALSE, choice |-> c] : c \in 1..3}

(***************************************************************************)
(* claude_sync.py: sync_all, one action per call it makes                  *)
(***************************************************************************)
\* datetime.now() during run r
Now(r) == r

InitialStats == [projects_found |-> 0, projects_synced |-> 0, sessions_found |-> 0,
                 sessions_synced |-> 0, total_messages |-> 0, errors |-> <<>>,
                 redaction_stats |-> EmptyStats]

Log(r, op, id, ok) == [run |-> r, op |-> op, id |-> id, ok |-> ok]
\* the history after a step that performed the operations added to log
Recorded(log) == IF recording THEN log ELSE oplog

ErrorEntry(kind, id) == [kind |-> kind, id |-> id]

InitStores(trees, arguments, configs, redactions, f, rec) ==
    /\ tree \in trees
    /\ args \in arguments
    /\ git_configs \in configs
    /\ enable_redaction \in redactions
    /\ selected_repos = [r \in Runs |-> None]
    /\ selected_owners = [r \in Runs |-> None]
    /\ exit_status = [r \in Runs |-> None]
    /\ pc = [r \in Runs |-> "init"]
    /\ mongo_client = [r \in Runs |-> "none"]
    /\ es = [r \in Runs |-> "none"]
    /\ es_up = [r \in Runs |-> FALSE]
    /\ stats = [r \in Runs |-> InitialStats]
    /\ redaction_stats = [r \in Runs |-> EmptyStats]
    /\ projects = [r \in Runs |-> <<>>]
    /\ pidx = [r \in Runs |-> 0]
    /\ sessions = [r \in Runs |-> <<>>]
    /\ sidx = [r \in Runs |-> 0]
    /\ projects_collection = EmptyCollection
    /\ sessions_collection = EmptyCollection
    /\ messages_collection = EmptyCollection
    /\ es_index = EmptyCollection
    /\ oplog = <<>>
    /\ recording = rec
    /\ faults = f
    /\ snapshot = [projects |-> EmptyCollection, sessions |-> EmptyCollection,
                   messages |-> EmptyCollection]

\* the operations are recorded
InitOf(trees, arguments, configs, redactions, f) ==
    InitStores(trees, arguments, configs, redactions, f, TRUE)

\* every project is synchronised (--all), no directory is a checkout
InitWith(trees, f) == InitOf(trees, {ArgsAll}, {NoConfigs}, BOOLEAN, f)

\* the stores may fail, the trees are the chosen ones
Init == InitWith(Trees, 0)

\* the stores do not fail, the session file is any file of at most MaxLines lines
InitFile == InitWith(FileTrees, MaxFaults)

\* the stores may fail, one tree
InitLive == InitWith(LiveTrees, 0)

\* the program started with --all and redaction left on, its default
InitDefault == InitOf(Trees, {ArgsAll}, {NoConfigs}, {TRUE}, 0)

\* the stores do not fail; the session file is any text file of at most
\* MaxLines lines
InitText == InitOf(TextTrees, {ArgsAll}, {NoConfigs}, {TRUE}, MaxFaults)

\* the stores do not fail, the trees are the chosen ones; the order in which
\* the processes take their steps is not recorded
InitOverlap == InitStores(Trees, {ArgsAll}, {NoConfigs}, {TRUE}, MaxFaults, FALSE)

\* the stores do not fail; the session file holds texts with several secrets
InitRedact == InitOf(RedactTrees, {ArgsAll}, {NoConfigs}, {TRUE}, MaxFaults)

\* the stores do not fail; the command line and the checkouts vary
InitFilter == InitOf(FilterTrees, FilterArgs, ConfigSets, {TRUE}, MaxFaults)

\* the filter runs over configs at several levels of one path
InitWalk == InitOf(FilterTrees, WalkArgs, WalkConfigSets, {TRUE}, MaxFaults)

\* the rest of the step, given what main decided
Started(r, m) ==
    /\ pc' = [pc EXCEPT ![r] = IF m.exit = None THEN "connect" ELSE "exited"]
    /\ exit_status' = [exit_status EXCEPT ![r] = m.exit]
    /\ selected_repos' = [selected_repos EXCEPT ![r] = m.repos]
    /\ selected_owners' = [selected_owners EXCEPT ![r] = m.owners]

\* main() up to ClaudeSyncManager(...) and the call of sync_all, or to the
\* sys.exit before them
MainStarts(r) ==
    /\ pc[r] = "init"
    /\ \E available \in {<<get_available_repos(tree, git_configs),
                            get_available_owners(tree, git_configs)>>} :
       \E picked_repos \in (IF Interactive(args) THEN Selections(available[1]) ELSE {None}),
          picked_owners \in (IF Interactive(args) THEN Selections(available[2]) ELSE {None}) :
            Started(r, main_before_sync(args, available[1], available[2],
                                        picked_repos, picked_owners))
    /\ snapshot' = [projects |-> projects_collection, sessions |-> sessions_collection,
                    messages |-> messages_collection]
    /\ UNCHANGED <<tree, args, git_configs, enable_redaction, recording, mongo_client, es, es_up, stats,
                   redaction_stats, projects, pidx, sessions, sidx, projects_collection,
                   sessions_collection, messages_collection, es_index, oplog, faults>>

\* a process is started when the one before it has ended: runs do not overlap
StartRun(r) ==
    /\ r > 1 => pc[r - 1] = "exited"
    /\ MainStarts(r)

\* a process is started while the one before it may still be running: both
\* work on the same stores and the same tree
StartOverlapping(r) ==
    /\ r > 1 => pc[r - 1] # "init"
    /\ MainStarts(r)

\* what connect_mongodb and, inside it, es_client.connect can meet
ConnectOutcomes ==
    {[mongo |-> "missing_config", es |-> "not_attempted"],
     [mongo |-> "unreachable", es |-> "not_attempted"]}
    \cup {[mongo |-> "ok", es |-> e] : e \in {"ok", "constructor_raises", "no_ping", "create_index_raises"}}

\* a connect_mongodb whose failure is not reported to sync_all
connect_mongodb_unreported(o) == TRUE

\* the value connect_mongodb returns
connect_mongodb(o) == o.mongo = "ok"

\* connect_mongodb(), and the `if not self.connect_mongodb()` of sync_all
Connect(r) ==
    /\ pc[r] = "connect"
    /\ \E o \in ConnectOutcomes :
        LET fault == o.mongo # "ok" \/ o.es # "ok" IN
        /\ fault => faults < MaxFaults
        /\ faults' = IF fault THEN faults + 1 ELSE faults
        /\ mongo_client' = [mongo_client EXCEPT ![r] =
                                IF o.mongo = "missing_config" THEN "none" ELSE "open"]
        /\ es' = [es EXCEPT ![r] =
                    IF o.es \in {"ok", "no_ping", "create_index_raises"} THEN "open" ELSE "none"]
        /\ es_up' = [es_up EXCEPT ![r] = o.es \in {"ok", "create_index_raises"}]
        /\ oplog' = Recorded(oplog \o <<Log(r, "connect_mongodb", "", o.mongo = "ok")>>
                          \o (IF o.mongo = "ok" THEN <<Log(r, "connect_es", "", o.es = "ok")>> ELSE <<>>))
        /\ stats' = [stats EXCEPT ![r] =
                        IF connect_mongodb(o) THEN @
                        ELSE [@ EXCEPT !.errors = Append(@, ErrorEntry("connect", ""))]]
        /\ pc' = [pc EXCEPT ![r] = IF connect_mongodb(o) THEN "scan_projects" ELSE "finally"]
    /\ UNCHANGED <<tree, args, git_configs, enable_redaction, recording, selected_repos,
                   selected_owners, exit_status, redaction_stats, projects, pidx, sessions, sidx,
                   projects_collection, sessions_collection, messages_collection, es_index,
                   snapshot>>

\* the end of the `for project in projects` loop: the next project, or
\* stats["redaction_stats"] = self.redaction_stats and the return
AfterProject(r, st, i, n) ==
    /\ pidx' = [pidx EXCEPT ![r] = i + 1]
    /\ pc' = [pc EXCEPT ![r] = IF i < n THEN "sync_project" ELSE "finally"]
    /\ stats' = [stats EXCEPT ![r] =
                    IF i < n THEN st ELSE [st EXCEPT !.redaction_stats = redaction_stats[r]]]

RECURSIVE SkippedDirs(_, _, _, _)
\* history: the directories scan_projects skipped because of an exception
SkippedDirs(r, t, failing, k) ==
    IF k > Len(t) THEN <<>>
    ELSE (IF t[k].id \in failing THEN <<Log(r, "scan_project", t[k].id, FALSE)>> ELSE <<>>)
         \o SkippedDirs(r, t, failing, k + 1)

\* projects = self.scan_projects(): iterdir raises (the exception reaches the
\* except clause of sync_all), or the directories in `failing` are skipped
ScanProjects(r) ==
    /\ pc[r] = "scan_projects"
    /\ \E raises \in BOOLEAN, failing \in SUBSET {tree[k].id : k \in DOMAIN tree} :
        LET cost == IF raises THEN 1 ELSE Cardinality(failing) IN
        /\ raises => failing = {}
        /\ faults + cost <= MaxFaults
        /\ faults' = faults + cost
        /\ \E found \in {scan_projects(tree, git_configs, selected_repos[r], selected_owners[r],
                                       failing, Now(r))} :
            /\ oplog' = Recorded(Append(oplog, Log(r, "scan_projects", "", ~raises))
                        \o SkippedDirs(r, tree, failing, 1))
            /\ IF raises
               THEN /\ stats' = [stats EXCEPT ![r].errors = Append(@, ErrorEntry("exception", ""))]
                    /\ pc' = [pc EXCEPT ![r] = "finally"]
                    /\ UNCHANGED <<projects, pidx>>
               ELSE /\ projects' = [projects EXCEPT ![r] = found]
                    /\ AfterProject(r, [stats[r] EXCEPT !.projects_found = Len(found)],
                                    0, Len(found))
    /\ UNCHANGED <<tree, args, git_configs, enable_redaction, recording, selected_repos,
                   selected_owners, exit_status, mongo_client, es, es_up, redaction_stats, sessions,
                   sidx, projects_collection, sessions_collection, messages_collection,
                   es_index, snapshot>>

\* a sync_project_to_mongodb that reports the opposite of what happened
sync_project_to_mongodb_inverted(ok) == ~ok

\* a sync_project_to_mongodb whose except clause reports success
sync_project_to_mongodb_swallowing(ok) == TRUE

\* the value sync_project_to_mongodb returns when update_one succeeds (ok) or raises
sync_project_to_mongodb(ok) == ok

\* sync_project_to_mongodb(project) and the `if`/`else` of sync_all around it
SyncProject(r) ==
    /\ pc[r] = "sync_project"
    /\ \E ok \in BOOLEAN :
        LET project == projects[r][pidx[r]] IN
        /\ ~ok => faults < MaxFaults
        /\ faults' = IF ok THEN faults ELSE faults + 1
        /\ oplog' = Recorded(Append(oplog, Log(r, "upsert_project", project.id, ok)))
        /\ IF sync_project_to_mongodb(ok)
           THEN /\ projects_collection' =
                        IF ok
                        THEN Put(projects_collection, project.id,
                                 ProjectDoc(projects_collection, project, Now(r)))
                        ELSE projects_collection
                /\ stats' = [stats EXCEPT ![r].projects_synced = @ + 1]
                /\ pc' = [pc EXCEPT ![r] = "scan_sessions"]
                /\ UNCHANGED pidx
           ELSE /\ AfterProject(r, [stats[r] EXCEPT !.errors =
                                        Append(@, ErrorEntry("project", project.id))],
                                pidx[r], Len(projects[r]))
                /\ UNCHANGED projects_collection
    /\ UNCHANGED <<tree, args, git_configs, enable_redaction, recording, selected_repos,
                   selected_owners, exit_status, mongo_client, es, es_up, redaction_stats, projects,
                   sessions, sidx, sessions_collection, messages_collection, es_index,
                   snapshot>>

\* a step that forgets stats["sessions_found"] += len(sessions)
ScannedUncounted(r, project, scanned) ==
    /\ sessions' = [sessions EXCEPT ![r] = scanned.sessions]
    /\ sidx' = [sidx EXCEPT ![r] = 1]
    /\ redaction_stats' = [redaction_stats EXCEPT ![r] = AccumulateStats(@, scanned.stats)]
    /\ stats' = stats
    /\ oplog' = Recorded(Append(oplog, Log(r, "scan_sessions", project.id, TRUE))
                \o [k \in DOMAIN scanned.failed |-> Log(r, "build_session", scanned.failed[k], FALSE)])
    /\ pc' = [pc EXCEPT ![r] =
                IF scanned.sessions = <<>> THEN "update_statistics" ELSE "sync_session"]

\* the rest of the step, given what scan_sessions returned
Scanned(r, project, scanned) ==
    /\ sessions' = [sessions EXCEPT ![r] = scanned.sessions]
    /\ sidx' = [sidx EXCEPT ![r] = 1]
    /\ redaction_stats' = [redaction_stats EXCEPT ![r] = AccumulateStats(@, scanned.stats)]
    /\ stats' = [stats EXCEPT ![r].sessions_found = @ + Len(scanned.sessions)]
    /\ oplog' = Recorded(Append(oplog, Log(r, "scan_sessions", project.id, TRUE))
                \o [k \in DOMAIN scanned.failed |-> Log(r, "build_session", scanned.failed[k], FALSE)])
    /\ pc' = [pc EXCEPT ![r] =
                IF scanned.sessions = <<>> THEN "update_statistics" ELSE "sync_session"]

\* sessions = self.scan_sessions(project); stats["sessions_found"] += len(sessions)
ScanSessions(r) ==
    /\ pc[r] = "scan_sessions"
    /\ \E scanned \in {scan_sessions(tree, projects[r][pidx[r]], enable_redaction, Now(r))} :
            Scanned(r, projects[r][pidx[r]], scanned)
    /\ UNCHANGED <<tree, args, git_configs, enable_redaction, recording, selected_repos,
                   selected_owners, exit_status, mongo_client, es, es_up, projects, pidx,
                   projects_collection, sessions_collection, messages_collection, es_index,
                   faults, snapshot>>

\* a sync_session_to_mongodb that submits to the search index before it knows
\* that bulk_write went through
SessionOutcomesIndexFirst(r, n) ==
    {[primary |-> "upsert_fails", written |-> 0, search |-> "skipped", indexed |-> 0]}
    \cup {[primary |-> "bulk_fails", written |-> k, search |-> IF es[r] # "none" THEN "fails" ELSE "skipped",
            indexed |-> 0] : k \in 0..(n - 1)}
    \cup {[primary |-> "ok", written |-> n, search |-> "skipped", indexed |-> 0]}

\* what sync_session_to_mongodb can meet for a session of n messages:
\*   primary  "upsert_fails": update_one raises; "bulk_fails": bulk_write raises
\*            after its first `written` operations; "ok"
\*   search   "skipped": the indexing block is not entered; "ok": all indexed;
\*            "fails": the submission raises after `indexed` documents
SessionOutcomes(r, n) ==
    {[primary |-> "upsert_fails", written |-> 0, search |-> "skipped", indexed |-> 0]}
    \cup {[primary |-> "bulk_fails", written |-> k, search |-> "skipped", indexed |-> 0]
            : k \in 0..(n - 1)}
    \cup (IF es[r] # "none" /\ n > 0
          THEN {[primary |-> "ok", written |-> n, search |-> "fails", indexed |-> k]
                    : k \in IF es_up[r] THEN 0..(n - 1) ELSE {0}}
               \cup (IF es_up[r]
                     THEN {[primary |-> "ok", written |-> n, search |-> "ok", indexed |-> n]}
                     ELSE {})
          ELSE {[primary |-> "ok", written |-> n, search |-> "skipped", indexed |-> 0]})

\* an outcome the environment is to blame for (a search index that is down
\* was counted when the connection was attempted)
SessionFault(r, o) == o.primary # "ok" \/ (o.search = "fails" /\ es_up[r])

\* sync_session_to_mongodb(session) and the `if`/`else` of sync_all around it
SyncSession(r) ==
    /\ pc[r] = "sync_session"
    /\ LET session == sessions[r][sidx[r]]
           n == Len(session.messages)
       IN \E o \in SessionOutcomes(r, n) :
        /\ SessionFault(r, o) => faults < MaxFaults
        /\ faults' = IF SessionFault(r, o) THEN faults + 1 ELSE faults
        /\ sessions_collection' =
                IF o.primary = "upsert_fails" THEN sessions_collection
                ELSE Put(sessions_collection, session.id, SessionDoc(session, Now(r)))
        /\ messages_collection' = BulkWrite(messages_collection, session, o.written, Now(r))
        /\ es_index' =
                IF o.search = "skipped" \/ session.project_id \notin DOMAIN projects_collection
                THEN es_index
                ELSE BulkIndex(es_index, session, o.indexed,
                               projects_collection[session.project_id], Now(r))
        /\ oplog' = Recorded(oplog
                \o <<Log(r, "upsert_session", session.id, o.primary # "upsert_fails")>>
                \o (IF o.primary # "upsert_fails" /\ n > 0
                    THEN <<Log(r, "bulk_write", session.id, o.primary = "ok")>> ELSE <<>>)
                \o (IF o.search # "skipped" /\ session.project_id \in DOMAIN projects_collection
                    THEN <<Log(r, "es_bulk", session.id, o.search = "ok")>> ELSE <<>>))
        /\ stats' = [stats EXCEPT ![r] =
                        IF o.primary = "ok"
                        THEN [@ EXCEPT !.sessions_synced = @ + 1, !.total_messages = @ + n]
                        ELSE [@ EXCEPT !.errors = Append(@, ErrorEntry("session", session.id))]]
        /\ sidx' = [sidx EXCEPT ![r] = @ + 1]
        /\ pc' = [pc EXCEPT ![r] =
                    IF sidx[r] < Len(sessions[r]) THEN "sync_session" ELSE "update_statistics"]
    /\ UNCHANGED <<tree, args, git_configs, enable_redaction, recording, selected_repos,
                   selected_owners, exit_status, mongo_client, es, es_up, redaction_stats, projects,
                   pidx, sessions, projects_collection, snapshot>>

\* self.update_project_statistics(project.id); its result is not looked at
UpdateStatistics(r) ==
    /\ pc[r] = "update_statistics"
    /\ \E ok \in BOOLEAN :
        LET project == projects[r][pidx[r]]
            update_data == StatisticsOf(project.id, sessions_collection, messages_collection, Now(r))
        IN
        /\ ~ok => faults < MaxFaults
        /\ faults' = IF ok THEN faults ELSE faults + 1
        /\ oplog' = Recorded(Append(oplog, Log(r, "update_statistics", project.id, ok)))
        /\ projects_collection' =
                IF ok /\ project.id \in DOMAIN projects_collection
                THEN [projects_collection EXCEPT ![project.id] =
                        [@ EXCEPT !.session_count = update_data.session_count,
                                  !.message_count = update_data.message_count,
                                  !.last_conversation_date = update_data.last_conversation_date,
                                  !.stats_updated_at = update_data.stats_updated_at]]
                ELSE projects_collection
        /\ AfterProject(r, stats[r], pidx[r], Len(projects[r]))
    /\ UNCHANGED <<tree, args, git_configs, enable_redaction, recording, selected_repos,
                   selected_owners, exit_status, mongo_client, es, es_up, redaction_stats, projects,
                   sessions, sidx, sessions_collection, messages_collection, es_index,
                   snapshot>>

\* `if self.mongo_client: self.mongo_client.close()`
CloseMongo(client) == IF client = "open" THEN "closed" ELSE client

\* a close that leaves the search client as it is
CloseEsForgotten(client) == client

\* ElasticsearchClient.close: `if self.es: self.es.close()`
CloseEs(client) == IF client = "open" THEN "closed" ELSE client

\* the `finally: self.close()` of sync_all
Close(r) ==
    /\ pc[r] = "finally"
    /\ mongo_client' = [mongo_client EXCEPT ![r] = CloseMongo(@)]
    /\ es' = [es EXCEPT ![r] = CloseEs(@)]
    /\ oplog' = Recorded(oplog
            \o (IF mongo_client[r] = "open" THEN <<Log(r, "close_mongodb", "", TRUE)>> ELSE <<>>)
            \o (IF es[r] = "open" THEN <<Log(r, "close_es", "", TRUE)>> ELSE <<>>))
    /\ pc' = [pc EXCEPT ![r] = "closed"]
    /\ UNCHANGED <<tree, args, git_configs, enable_redaction, recording, selected_repos,
                   selected_owners, exit_status, es_up, stats, redaction_stats, projects, pidx,
                   sessions, sidx, projects_collection, sessions_collection,
                   messages_collection, es_index, faults, snapshot>>

\* main() after sync_all: the results are printed and the process ends
Exit(r) ==
    /\ pc[r] = "closed"
    /\ pc' = [pc EXCEPT ![r] = "exited"]
    /\ exit_status' = [exit_status EXCEPT ![r] = Some(main_after_sync(stats[r]))]
    /\ UNCHANGED <<tree, args, git_configs, enable_redaction, recording, selected_repos, selected_owners,
                   mongo_client, es, es_up, stats, redaction_stats, projects, pidx, sessions,
                   sidx, projects_collection, sessions_collection, messages_collection,
                   es_index, oplog, faults, snapshot>>

Next ==
    \E r \in Runs :
        \/ StartRun(r)
        \/ Connect(r)
        \/ ScanProjects(r)
        \/ SyncProject(r)
        \/ ScanSessions(r)
        \/ SyncSession(r)
        \/ UpdateStatistics(r)
        \/ Close(r)
        \/ Exit(r)

\* the steps of processes that may overlap; each store operation of the
\* handlers is one step
NextOverlap ==
    \E r \in Runs :
        \/ StartOverlapping(r)
        \/ Connect(r)
        \/ ScanProjects(r)
        \/ SyncProject(r)
        \/ ScanSessions(r)
        \/ SyncSession(r)
        \/ UpdateStatistics(r)
        \/ Close(r)
        \/ Exit(r)

Spec == Init /\ [][Next]_vars

\* a run that was started goes on: sync_all is sequential code that blocks on nothing
FairSpec == InitLive /\ [][Next]_vars /\ WF_vars(Next)

SpecFile == InitFile /\ [][Next]_vars

SpecFilter == InitFilter /\ [][Next]_vars

SpecText == InitText /\ [][Next]_vars

SpecRedact == InitRedact /\ [][Next]_vars

SpecOverlap == InitOverlap /\ [][NextOverlap]_vars

SpecWalk == InitWalk /\ [][Next]_vars

SpecDefault == InitDefault /\ [][Next]_vars

(***************************************************************************)
(* Properties                                                              *)
(***************************************************************************)
\* the values the redaction engine detects as secrets in a text
SecretTexts(text) == {s.text : s \in Range(detect_secrets(text))}

\* the texts a message content carries: the string, or the text and the
\* content of every block of the list
ContentTexts(content) ==
    CASE content.kind = "str" -> {content.text}
      [] content.kind = "list" ->
            UNION {Range(content.blocks[k].text) \cup Range(content.blocks[k].content)
                     : k \in DOMAIN content.blocks}
      [] OTHER -> {}

MessageTexts(message) == IF message.kind = "dict" THEN ContentTexts(message.content) ELSE {}

\* the session file a stored document was built from
SourceFile(project_id, session_id) ==
    LET files == DirOf(tree, project_id).files
    IN  files[CHOOSE k \in DOMAIN files : files[k].stem = session_id]

\* the line numbers of the lines that decode to a record object, in file order
RECURSIVE ObjectLineNumbers(_, _)
ObjectLineNumbers(lines, n) ==
    IF n > Len(lines) THEN <<>>
    ELSE (IF lines[n].kind = "object" THEN <<n>> ELSE <<>>) \o ObjectLineNumbers(lines, n + 1)

\* the entries of the operation log that belong to run r
EntriesOf(r) == {i \in DOMAIN oplog : oplog[i].run = r}

\* run r is the latest run that was started
Latest(r) == pc[r] # "init" /\ (r = MaxRuns \/ pc[r + 1] = "init")

\* C1: with redaction enabled, neither the content nor the raw_data of a
\* stored message holds a value the redaction engine detects as a secret in
\* the content of the record it was built from, whatever the shape of that
\* content (a string, a list with text blocks, a list without one, missing).
C1_StoredMessagesRedacted ==
    enable_redaction =>
        \A k \in DOMAIN messages_collection :
            LET doc == messages_collection[k]
                src == SourceFile(doc.project_id, doc.session_id).lines[doc.raw_data.line_number]
            IN  \A t \in MessageTexts(src.message) : \A s \in SecretTexts(t) :
                    /\ \A c \in Range(doc.content) : ~Contains(c, s)
                    /\ \A c \in MessageTexts(doc.raw_data.message) : ~Contains(c, s)

\* the primary store operations whose failure changes what a run writes
PrimaryOps == {"connect_mongodb", "scan_projects", "scan_project", "upsert_project",
               "upsert_session", "bulk_write", "update_statistics"}
NoPrimaryFailure == \A i \in DOMAIN oplog : oplog[i].op \in PrimaryOps => oplog[i].ok

SameMessages(a, b) ==
    /\ DOMAIN a = DOMAIN b
    /\ \A k \in DOMAIN a : [a[k] EXCEPT !.last_synced = 0] = [b[k] EXCEPT !.last_synced = 0]
SameSessions(a, b) ==
    /\ DOMAIN a = DOMAIN b
    /\ \A k \in DOMAIN a : [a[k] EXCEPT !.last_synced = 0, !.updated_at = 0]
                           = [b[k] EXCEPT !.last_synced = 0, !.updated_at = 0]
SameProjects(a, b) ==
    /\ DOMAIN a = DOMAIN b
    /\ \A k \in DOMAIN a :
        [a[k] EXCEPT !.last_synced = 0, !.updated_at = 0, !.stats_updated_at = None]
        = [b[k] EXCEPT !.last_synced = 0, !.updated_at = 0, !.stats_updated_at = None]

\* C2: a run over the tree an earlier run has synchronised, nothing failing
\* in either, leaves the same message keys with the same content and raw_data,
\* the same session documents and the same session_count and message_count of
\* every project: only last_synced/updated_at timestamps differ from the
\* store the run started with.
C2_RerunIdempotent ==
    \A r \in Runs \ {1} :
        (pc[r] = "closed" /\ Latest(r) /\ NoPrimaryFailure) =>
            /\ SameMessages(messages_collection, snapshot.messages)
            /\ SameSessions(sessions_collection, snapshot.sessions)
            /\ SameProjects(projects_collection, snapshot.projects)

\* C2 witness: the second run has rewritten a message the first one stored
C2_Witness ==
    /\ pc[2] = "closed" /\ Latest(2) /\ NoPrimaryFailure
    /\ \E k \in DOMAIN messages_collection :
        /\ k \in DOMAIN snapshot.messages
        /\ snapshot.messages[k].last_synced = Now(1)
        /\ messages_collection[k].last_synced = Now(2)
    /\ \E p \in DOMAIN projects_collection : projects_collection[p].message_count # Some(0)

\* C3: the records of a synchronised session file that survive decoding are
\* stored under the keys sid_0 .. sid_(N-K-1), in file order, in every run.
C3_DenseKeysInFileOrder ==
    \A sid \in DOMAIN sessions_collection :
        LET f == SourceFile(sessions_collection[sid].project_id, sid)
            survivors == ObjectLineNumbers(f.lines, 1)
        IN  /\ {k \in DOMAIN messages_collection : k[1] = sid}
                = {MessageId(sid, i) : i \in 0..(Len(survivors) - 1)}
            /\ \A i \in 0..(Len(survivors) - 1) :
                MessageId(sid, i) \in DOMAIN messages_collection =>
                    messages_collection[MessageId(sid, i)].raw_data.line_number = survivors[i + 1]

\* C4: with redaction enabled, the first_message and the todo_data of a stored
\* session document hold no value the redaction engine detects as a secret in
\* the text they were taken from.
C4_SessionDocumentRedacted ==
    enable_redaction =>
        \A sid \in DOMAIN sessions_collection :
            LET doc == sessions_collection[sid]
                f == SourceFile(doc.project_id, sid)
            IN  /\ \A t \in Range(extract_first_user_message(f.lines).first_message) :
                    \A s \in SecretTexts(t) : \A c \in Range(doc.first_message) : ~Contains(c, s)
                /\ \A t \in (IF f.todo.kind = "data" THEN {f.todo.text} ELSE {}) :
                    \A s \in SecretTexts(t) : \A c \in Range(doc.todo_data) : ~Contains(c, s)

\* run r could not connect to the primary store
PrimaryConnectFailed(r) == \E i \in EntriesOf(r) : oplog[i].op = "connect_mongodb" /\ ~oplog[i].ok

\* C5: a run whose connection to the primary store fails scans nothing, writes
\* nothing, does not try to connect to the search index, and reports
\* projects_found = 0 and an error entry.
C5_PrimaryFailureStopsRun ==
    \A r \in Runs :
        PrimaryConnectFailed(r) =>
            /\ \A i \in EntriesOf(r) : oplog[i].op \in {"connect_mongodb", "close_mongodb"}
            /\ es[r] = "none"
            /\ projects[r] = <<>> /\ sessions[r] = <<>>
            /\ stats[r].projects_found = 0
            /\ ErrorEntry("connect", "") \in Range(stats[r].errors)
            /\ Latest(r) => /\ projects_collection = snapshot.projects
                            /\ sessions_collection = snapshot.sessions
                            /\ messages_collection = snapshot.messages

\* C5 witness: the second run failed to connect and ended; the store holds
\* what the first run wrote
C5_Witness ==
    /\ pc[2] = "closed" /\ PrimaryConnectFailed(2)
    /\ messages_collection # EmptyCollection

\* C6: when the connection to the search index fails (the ping is not
\* answered, or connecting raises), no write to the search index is attempted
\* for any session of the run.
C6_NoIndexingAfterSearchFailure ==
    \A i \in DOMAIN oplog :
        (oplog[i].op = "connect_es" /\ ~oplog[i].ok) =>
            \A j \in EntriesOf(oplog[i].run) : oplog[j].op # "es_bulk"

\* C7: every run of sync_all that has started eventually is closed, with
\* every connection it opened released, whichever way it leaves.
C7_EveryRunCloses ==
    \A r \in Runs :
        (pc[r] = "connect") ~> (pc[r] = "closed" /\ mongo_client[r] # "open" /\ es[r] # "open")

\* C7 witness: a run left through the exception handler with both connections
\* opened, and both are released
C7_Witness ==
    \E r \in Runs :
        /\ pc[r] = "closed" /\ mongo_client[r] = "closed" /\ es[r] = "closed"
        /\ ErrorEntry("exception", "") \in Range(stats[r].errors)

\* C8: when the upsert of a project fails, the run summary names the project
\* in an error entry, projects_synced counts only the projects upserted, none
\* of the project's sessions is scanned or written and its statistics are not
\* recomputed (the run goes straight to the next project or to its end), and
\* once the run ends every other project discovered has been upserted and,
\* where that succeeded, its sessions scanned and its statistics recomputed.
C8_ProjectFailureIsolated ==
    \A i \in DOMAIN oplog :
        LET e == oplog[i] IN
        (e.op = "upsert_project" /\ ~e.ok) =>
            /\ ErrorEntry("project", e.id) \in Range(stats[e.run].errors)
            /\ stats[e.run].projects_synced
                = Cardinality({j \in EntriesOf(e.run) : oplog[j].op = "upsert_project" /\ oplog[j].ok})
            /\ \A j \in EntriesOf(e.run) :
                oplog[j].op \in {"scan_sessions", "update_statistics"} => oplog[j].id # e.id
            /\ (i < Len(oplog) /\ oplog[i + 1].run = e.run) =>
                /\ oplog[i + 1].op \in {"upsert_project", "close_mongodb", "close_es"}
                /\ oplog[i + 1].id # e.id
            /\ pc[e.run] = "closed" =>
                \A k \in DOMAIN projects[e.run] :
                    LET q == projects[e.run][k].id IN
                    /\ \E j \in EntriesOf(e.run) : oplog[j].op = "upsert_project" /\ oplog[j].id = q
                    /\ (\E j \in EntriesOf(e.run) :
                            oplog[j].op = "upsert_project" /\ oplog[j].id = q /\ oplog[j].ok) =>
                        \A op \in {"scan_sessions", "update_statistics"} :
                            \E j \in EntriesOf(e.run) : oplog[j].op = op /\ oplog[j].id = q

\* C8 witness: the upsert of the first project failed, the second project was
\* upserted and its sessions synchronised, and the run ended
C8_Witness ==
    \E r \in Runs :
        /\ pc[r] = "closed"
        /\ \E i, j \in EntriesOf(r) :
            /\ i < j
            /\ oplog[i].op = "upsert_project" /\ ~oplog[i].ok
            /\ oplog[j].op = "upsert_session" /\ oplog[j].ok
        /\ stats[r].projects_synced = 1

\* C9: every project or session that could not be scanned, built or written
\* is named in an error entry of the run summary.
C9_FailuresRecorded ==
    \A i \in DOMAIN oplog :
        LET e == oplog[i] IN
        (~e.ok /\ e.op \in {"scan_project", "build_session", "upsert_project",
                            "upsert_session", "bulk_write"}) =>
            \E x \in Range(stats[e.run].errors) : x.kind \in {"project", "session"} /\ x.id = e.id

\* C10: the records scan_sessions gets from a session file are the lines that
\* decode to a record object, all of them and in file order: a line that is
\* not valid JSON, is empty or decodes to something else is dropped alone.
C10_MalformedLineDroppedAlone ==
    \A r \in Runs : \A k \in DOMAIN sessions[r] :
        LET session == sessions[r][k]
            f == SourceFile(session.project_id, session.id)
        IN  [m \in DOMAIN session.messages |-> session.messages[m].raw_data.line_number]
                = ObjectLineNumbers(f.lines, 1)

\* C11: in a step of sync_session_to_mongodb, the submission to the search
\* index follows directly the successful bulk write of the same session, every
\* message of the session being in the primary store by then; and when the
\* submission fails, wholly or after some documents, the session document and
\* the message documents stay as written, sessions_synced is incremented and
\* no error entry is added.
C11_IndexAfterPrimaryNoRollback ==
    [][\A r \in Runs :
        (pc[r] = "sync_session" /\ sidx'[r] = sidx[r] + 1) =>
            LET session == sessions[r][sidx[r]]
                new == SubSeq(oplog', Len(oplog) + 1, Len(oplog'))
            IN  \A k \in DOMAIN new :
                    new[k].op = "es_bulk" =>
                        /\ k > 1
                        /\ new[k - 1] = Log(r, "bulk_write", session.id, TRUE)
                        /\ \A idx \in 0..(Len(session.messages) - 1) :
                            /\ MessageId(session.id, idx) \in DOMAIN messages_collection'
                            /\ messages_collection'[MessageId(session.id, idx)].content
                                    = session.messages[idx + 1].content
                            /\ messages_collection'[MessageId(session.id, idx)].last_synced = Now(r)
                        /\ ~new[k].ok =>
                            /\ session.id \in DOMAIN sessions_collection'
                            /\ sessions_collection'[session.id] = SessionDoc(session, Now(r))
                            /\ stats'[r].sessions_synced = stats[r].sessions_synced + 1
                            /\ stats'[r].errors = stats[r].errors
      ]_vars

\* C11 witness: a submission to the search index failed after some documents,
\* the session's messages are all in the primary store and the session counts
\* as synced
C11_Witness ==
    \E i \in DOMAIN oplog :
        /\ oplog[i].op = "es_bulk" /\ ~oplog[i].ok
        /\ i = Len(oplog)
        /\ LET sid == oplog[i].id IN
            /\ {k \in DOMAIN es_index : k[1] = sid} # {}
            /\ Cardinality({k \in DOMAIN es_index : k[1] = sid})
                    < Cardinality({k \in DOMAIN messages_collection : k[1] = sid})
            /\ stats[oplog[i].run].sessions_synced >= 1
            /\ stats[oplog[i].run].errors = <<>>

\* the operations of sync_all on a project, logged under the project's id
ProjectOps == {"upsert_project", "scan_sessions", "update_statistics"}

\* the ids of the projects run r has worked on
ProjectsTouched(r) == {oplog[i].id : i \in {j \in EntriesOf(r) : oplog[j].op \in ProjectOps}}

\* run r has scanned the projects directory
ScanDone(r) == \E i \in EntriesOf(r) : oplog[i].op = "scan_projects" /\ oplog[i].ok

\* the directories whose resolved repository name is one of names
DirsOfRepos(names) ==
    {k \in DOMAIN tree :
        \E info \in {extract_repo_info(git_configs, tree[k].path)} :
            info[2] # None /\ info[2][1] # <<>> /\ info[2][1] \in names}

\* C12: a run with a repository-name allow-set finds exactly the directories
\* whose resolved repository name is in the set, projects_found is their
\* number, and the run works on no other directory: a directory whose name is
\* absent or not in the set is neither found, nor synced, nor counted.
C12_RepoFilterKeepsMatching ==
    \A r \in Runs :
        (selected_repos[r] # None /\ selected_repos[r][1] # {} /\ ScanDone(r)) =>
            \E matching \in {DirsOfRepos(selected_repos[r][1])} :
                /\ {projects[r][k].id : k \in DOMAIN projects[r]} = {tree[k].id : k \in matching}
                /\ Len(projects[r]) = Cardinality(matching)
                /\ stats[r].projects_found = Cardinality(matching)
                /\ ProjectsTouched(r) \subseteq {tree[k].id : k \in matching}
                /\ pc[r] \in {"closed", "exited"} =>
                        /\ ProjectsTouched(r) = {tree[k].id : k \in matching}
                        /\ stats[r].projects_synced = Cardinality(matching)

\* C12 witness: a run filtered by repository name has ended; it found and
\* synced two of the four directories
C12_Witness ==
    \E r \in Runs :
        /\ selected_repos[r] # None /\ pc[r] = "exited"
        /\ stats[r].projects_found = 2 /\ stats[r].projects_synced = 2
        /\ Len(tree) = 4
        /\ DOMAIN projects_collection = {"d1", "d2"}

\* C13: with an owner allow-set, every project the run finds or works on has
\* an owner that the resolver took from a version-control config and that is
\* in the set; a directory resolved by the path heuristics is never among them.
C13_OwnerFilterNeedsConfigOwner ==
    \A r \in Runs :
        (selected_owners[r] # None /\ selected_owners[r][1] # {}) =>
            \A id \in ProjectsTouched(r) \cup {projects[r][k].id : k \in DOMAIN projects[r]} :
                \E git \in {extract_repo_info_from_git_config(git_configs, DirOf(tree, id).path)} :
                    /\ git[1] # None
                    /\ git[1][1] \in selected_owners[r][1]

\* C13 witness: a run filtered by owner has ended; it kept the checkout of
\* acme/repoA and skipped the directory the heuristics resolve to repoA
C13_Witness ==
    \E r \in Runs :
        /\ selected_owners[r] = Some({OwnerAcme}) /\ pc[r] = "exited"
        /\ [k \in DOMAIN projects[r] |-> projects[r][k].id] = <<"d1">>
        /\ extract_repo_info(git_configs, DirOf(tree, "d2").path) = <<None, Some(RepoA)>>
        /\ "d1" \in DOMAIN projects_collection /\ "d2" \notin DOMAIN projects_collection

\* C14: no run has both a repository-name allow-set and an owner allow-set;
\* a command line that gives both options ends before a manager is built.
C14_OneFilterAtMost ==
    \A r \in Runs :
        /\ ~(/\ selected_repos[r] # None /\ selected_repos[r][1] # {}
             /\ selected_owners[r] # None /\ selected_owners[r][1] # {})
        /\ (args.repos # None /\ args.owners # None) =>
                /\ pc[r] \in {"init", "exited"}
                /\ projects[r] = <<>>

\* C14 witness: main was given both options and has ended without a run
C14_Witness ==
    \E r \in Runs :
        /\ args.repos # None /\ args.owners # None /\ ~args.list
        /\ pc[r] = "exited" /\ exit_status[r] = Some(1)
        /\ EntriesOf(r) = {}

\* the nearest directory, from the path upwards, that has a .git/config with
\* a remote "origin": the number of its components, 0 when there is none
NearestOriginOf(parts) == CHOOSE n \in 0..Len(parts) :
    \/ n = 0 /\ \A m \in 1..Len(parts) :
                    ~(SubSeq(parts, 1, m) \in DOMAIN git_configs
                      /\ git_configs[SubSeq(parts, 1, m)].kind = "origin")
    \/ /\ n > 0
       /\ SubSeq(parts, 1, n) \in DOMAIN git_configs
       /\ git_configs[SubSeq(parts, 1, n)].kind = "origin"
       /\ \A m \in (n + 1)..Len(parts) :
                    ~(SubSeq(parts, 1, m) \in DOMAIN git_configs
                      /\ git_configs[SubSeq(parts, 1, m)].kind = "origin")

\* C15: for a project path that lies in a checkout whose origin remote is
\* github.com owner/repo, the resolver returns that owner and that repo, also
\* when the path has the /workspace/X/projects/Y/ shape (looked at once a run
\* has resolved the directories).
C15_ConfigBeatsHeuristics ==
    (\E r \in Runs : ScanDone(r)) =>
    \A k \in DOMAIN tree :
        \E parts \in {PathParts(tree[k].path)} :
        \E n \in {NearestOriginOf(parts)} :
            (n > 0 /\ git_configs[SubSeq(parts, 1, n)].host = 1) =>
                extract_repo_info(git_configs, tree[k].path)
                    = <<Some(git_configs[SubSeq(parts, 1, n)].owner),
                        Some(git_configs[SubSeq(parts, 1, n)].repo)>>

\* C16: for every origin remote at a known host, URL-style or SSH-style, with
\* or without the .git suffix, the resolver returns the owner and the repo
\* component of the url, no character of the repo name removed (looked at
\* once a run has resolved the directories).
C16_DotGitSuffixIgnored ==
    (\E r \in Runs : ScanDone(r)) =>
    \A d \in DOMAIN git_configs :
        git_configs[d].kind = "origin" =>
            ParseRemote(git_configs[d].url)
                = [ok |-> TRUE, owner |-> git_configs[d].owner, repo |-> git_configs[d].repo]

\* the flattened content of a user-role record
FlattenedContent(line) ==
    CASE line.message.content.kind = "str" -> line.message.content.text
      [] line.message.content.kind = "list" -> Flatten(line.message.content.blocks)
      [] OTHER -> <<>>

\* the numbers of the lines that hold a user-role record whose flattened
\* content begins with neither marker
Qualifying(lines) ==
    {n \in DOMAIN lines :
        /\ lines[n].kind = "object"
        /\ lines[n].message.kind = "dict"
        /\ lines[n].message.role = Some("user")
        /\ ~StartsWith(FlattenedContent(lines[n]), CaveatMarker)
        /\ ~StartsWith(FlattenedContent(lines[n]), CommandMarker)}

\* C17: the first message and the message timestamp of a stored session are
\* the flattened content and the timestamp of the first user-role record of
\* its file whose content begins with neither the preamble marker nor the
\* command marker, and both are none when the file has no such record.
C17_FirstMessageSkipsMarkedPrefixes ==
    \A sid \in DOMAIN sessions_collection :
        \E lines \in {SourceFile(sessions_collection[sid].project_id, sid).lines} :
        \E q \in {Qualifying(lines)} :
            IF q = {}
            THEN /\ sessions_collection[sid].first_message = None
                 /\ sessions_collection[sid].message_timestamp = None
            ELSE \E n \in {Min(q)} :
                 /\ sessions_collection[sid].first_message = Some(FlattenedContent(lines[n]))
                 /\ sessions_collection[sid].message_timestamp = lines[n].timestamp

\* C18: a stored message built from the record whose content is
\* "token: sk-ABCDEFGHIJKLMNOPQRSTUVWXYZabcdefghijklmnopqr" holds
\* [REDACTED_OPENAI_API_KEY] and not the token, and a run that has ended after
\* reading a file of that one record reports the statistics {OPENAI_API_KEY: 1}.
C18_OpenAIKeyAfterTokenLabel ==
    /\ \A k \in DOMAIN messages_collection :
        \E doc \in {messages_collection[k]} :
            SourceFile(sessions_collection[k[1]].project_id, k[1]).lines[doc.raw_data.line_number]
                    = LineToken =>
                /\ doc.content # None
                /\ Contains(doc.content[1],
                            <<"[","R","E","D","A","C","T","E","D","_",
                              "O","P","E","N","A","I","_","A","P","I","_","K","E","Y","]">>)
                /\ ~Contains(doc.content[1], TokenChars)
    /\ \A r \in Runs :
        (pc[r] = "exited" /\ tree[1].files[1].lines = <<LineToken>>) =>
            /\ DOMAIN redaction_stats[r] = {"OPENAI_API_KEY"}
            /\ redaction_stats[r]["OPENAI_API_KEY"] = 1

\* the candidates of a text: the secret text of every match of every pattern
Candidates(t) ==
    UNION {{Slice(t, m.gs, m.ge) : m \in Range(FindIter(SENSITIVE_PATTERNS[k], t, 1))}
             : k \in DOMAIN SENSITIVE_PATTERNS}

\* the candidates that are to be discarded: those in which a
\* whitelist pattern is found and those shorter than 8 characters
Discarded(candidates) ==
    {c \in candidates :
        \/ \E w \in WHITELIST_PATTERNS : ContainsIgnoreCase(c, w)
        \/ Len(c) < 8}

\* the source text of a stored message whose record holds a string
StringSources(k) ==
    \E line \in {SourceFile(sessions_collection[k[1]].project_id, k[1]).lines[
                        messages_collection[k].raw_data.line_number]} :
        line.message.kind = "dict" /\ line.message.content.kind = "str"

SourceText(k) ==
    SourceFile(sessions_collection[k[1]].project_id, k[1]).lines[
        messages_collection[k].raw_data.line_number].message.content.text

\* what C19 asks of the stored message with key k
KeepsExactlyDiscarded(k) ==
    StringSources(k) =>
        \E t \in {SourceText(k)} :
        \E content \in {messages_collection[k].content[1]} :
        \E candidates \in {Candidates(t)} :
        \E discarded \in {Discarded(candidates)} :
            /\ \A c \in candidates : Contains(content, c) <=> c \in discarded
            /\ t = TextLocalhost => content = TextLocalhost
            /\ candidates = discarded => content = t

\* C19: of the candidates the patterns find in the text of a record, a
\* message, when it is stored, still holds exactly those that match a
\* whitelist pattern or are shorter than 8 characters, every other candidate
\* being detected and replaced; the text "password: localhost" is stored as
\* it is.
C19_WhitelistAndMinimumLength ==
    [][\A k \in DOMAIN messages_collection' :
            (k \notin DOMAIN messages_collection \/ messages_collection'[k] # messages_collection[k])
                => KeepsExactlyDiscarded(k)']_vars

\* C19 witness: the three records of s1 are stored; the candidate localhost
\* (whitelisted) and the candidate abc (too short) were left in place, the
\* candidate hunter22 was replaced
C19_Witness ==
    /\ {MessageId("s1", i) : i \in 0..2} \subseteq DOMAIN messages_collection
    /\ Candidates(TextLocalhost) = {<<"l","o","c","a","l","h","o","s","t">>}
    /\ messages_collection[MessageId("s1", 0)].content = Some(TextLocalhost)
    /\ Candidates(TextShort) = {<<"a","b","c">>}
    /\ messages_collection[MessageId("s1", 1)].content = Some(TextShort)
    /\ Candidates(TextKept) = {<<"h","u","n","t","e","r","2","2">>}
    /\ messages_collection[MessageId("s1", 2)].content
            = Some(<<"d","b","_","p","a","s","s","=">> \o Placeholder("DB_PASSWORD"))

\* C20: a process that has ended after its manager was built has a non-zero
\* exit status exactly when its connection to the primary store failed;
\* failures of single projects and sessions leave the status at zero.
C20_ExitStatusTellsConnectionFailure ==
    \A r \in Runs :
        (pc[r] = "exited" /\ EntriesOf(r) # {}) =>
            /\ exit_status[r] # None
            /\ (exit_status[r] # Some(0)) <=> PrimaryConnectFailed(r)

\* the primary store after the sessions ss[k..] of a project were written
RECURSIVE AfterSessions(_, _, _)
AfterSessions(store, ss, k) ==
    IF k > Len(ss) THEN store
    ELSE AfterSessions([store EXCEPT
                            !.sessions = Put(@, ss[k].id, SessionDoc(ss[k], 0)),
                            !.messages = BulkWrite(@, ss[k], Len(ss[k].messages), 0)],
                       ss, k + 1)

\* the primary store after the cached statistics of a project were set
AfterStatistics(store, id, update_data) ==
    [store EXCEPT !.projects[id] =
        [@ EXCEPT !.session_count = update_data.session_count,
                  !.message_count = update_data.message_count,
                  !.last_conversation_date = update_data.last_conversation_date,
                  !.stats_updated_at = update_data.stats_updated_at]]

\* the primary store after one project was synchronised with nothing failing
AfterProjectAlone(store, project) ==
    With(AfterSessions([store EXCEPT !.projects =
                            Put(@, project.id, ProjectDoc(store.projects, project, 0))],
                       scan_sessions(tree, project, enable_redaction, 0).sessions, 1),
         LAMBDA written :
            AfterStatistics(written, project.id,
                            StatisticsOf(project.id, written.sessions, written.messages, 0)))

RECURSIVE AfterProjects(_, _, _)
AfterProjects(store, ps, k) ==
    IF k > Len(ps) THEN store
    ELSE With(AfterProjectAlone(store, ps[k]), LAMBDA next : AfterProjects(next, ps, k + 1))

\* the primary store a single run over the tree leaves, nothing failing
SingleRunStore ==
    AfterProjects([projects |-> EmptyCollection, sessions |-> EmptyCollection,
                   messages |-> EmptyCollection],
                  scan_projects(tree, git_configs, None, None, {}, 0), 1)

\* C21: when processes that overlapped on the same stores and the same tree
\* have all ended, nothing having failed, the primary store holds the project,
\* session and message documents a single run leaves, sync timestamps aside.
C21_OverlappingRunsLeaveSingleRunStore ==
    (\A r \in Runs : pc[r] = "exited") =>
        \E alone \in {SingleRunStore} :
            /\ SameMessages(messages_collection, alone.messages)
            /\ SameSessions(sessions_collection, alone.sessions)
            /\ SameProjects(projects_collection, alone.projects)

\* the number of messages of the sessions of ss whose index is in keep
RECURSIVE MessagesOf(_, _)
MessagesOf(ss, keep) ==
    IF keep = {} THEN 0
    ELSE LET k == CHOOSE x \in keep : TRUE
         IN  Len(ss[k].messages) + MessagesOf(ss, keep \ {k})

\* the first run has just persisted the statistics of a project
StatisticsJustPersisted ==
    /\ oplog # <<>>
    /\ oplog[Len(oplog)].op = "update_statistics"
    /\ oplog[Len(oplog)].ok
    /\ oplog[Len(oplog)].run = 1

\* the sessions of the project the first run is at that the run summary
\* reports as failed: those with a failed write since the project was upserted
ReportedFailed ==
    {oplog[i].id : i \in {j \in EntriesOf(1) :
        /\ oplog[j].op \in {"upsert_session", "bulk_write"}
        /\ ~oplog[j].ok
        /\ oplog[j].id \in {e.id : e \in {x \in Range(stats[1].errors) : x.kind = "session"}}
        /\ \A u \in EntriesOf(1) : oplog[u].op = "upsert_project" => u < j}}

\* C22: the statistics the first run persists for a project, on an empty
\* store, count the sessions of the project that were synchronised and their
\* messages; a session the run summary reports as failed adds to neither.
C22_FailedSessionNotCounted ==
    StatisticsJustPersisted =>
        \E doc \in {projects_collection[oplog[Len(oplog)].id]} :
        \E succeeded \in {{k \in DOMAIN sessions[1] : sessions[1][k].id \notin ReportedFailed}} :
            /\ doc.session_count = Some(Cardinality(succeeded))
            /\ doc.message_count = Some(MessagesOf(sessions[1], succeeded))

\* a run has just persisted the statistics of the project with this id
JustPersisted(id) ==
    /\ oplog # <<>>
    /\ oplog[Len(oplog)].op = "update_statistics"
    /\ oplog[Len(oplog)].ok
    /\ oplog[Len(oplog)].id = id

\* the non-null timestamps of the stored messages of a project
MessageTimestamps(id) ==
    {messages_collection[k].timestamp[1] :
        k \in {m \in DOMAIN messages_collection :
                    /\ messages_collection[m].project_id = id
                    /\ messages_collection[m].timestamp # None}}

\* the non-null first-message timestamps of the stored sessions of a project
SessionTimestamps(id) ==
    {sessions_collection[k].message_timestamp[1] :
        k \in {x \in DOMAIN sessions_collection :
                    /\ sessions_collection[x].project_id = id
                    /\ sessions_collection[x].message_timestamp # None}}

\* d is the greatest element of the non-empty set S
Greatest(d, S) == d # None /\ d[1] \in S /\ \A t \in S : t <= d[1]

\* C23: the last_conversation_date a run persists for a project is the
\* greatest timestamp of the project's stored messages when one of them has a
\* timestamp, else the greatest first-message timestamp of its stored
\* sessions, and null when there is neither.
C23_LatestMessageThenSession ==
    \A id \in DOMAIN projects_collection :
        JustPersisted(id) =>
            \E d \in {projects_collection[id].last_conversation_date} :
            \E mts \in {MessageTimestamps(id)} :
            \E sts \in {SessionTimestamps(id)} :
                /\ mts # {} => Greatest(d, mts)
                /\ (mts = {} /\ sts # {}) => Greatest(d, sts)
                /\ (mts = {} /\ sts = {}) => d = None

\* C23 witness: the statistics of p2 were just persisted; its stored messages
\* have timestamps up to 3, its one session has the first-message timestamp 1
C23_Witness ==
    /\ JustPersisted("p2")
    /\ MessageTimestamps("p2") = {1, 2, 3}
    /\ SessionTimestamps("p2") = {1}
    /\ projects_collection["p2"].last_conversation_date = Some(3)

\* the fallback is reached as well: a session of p2 is stored and none of its
\* messages (the bulk write failed), and the date persisted is the session's
C23_FallbackReached ==
    /\ JustPersisted("p2")
    /\ MessageTimestamps("p2") = {}
    /\ SessionTimestamps("p2") # {}
    /\ projects_collection["p2"].last_conversation_date # None

\* the type labels of the patterns
SecretTypes == {SENSITIVE_PATTERNS[k].type : k \in DOMAIN SENSITIVE_PATTERNS}

\* a text with every occurrence of the texts in ws taken out, longest first
RECURSIVE Erased(_, _)
Erased(t, ws) ==
    IF ws = {} THEN t
    ELSE LET w == CHOOSE x \in ws : \A y \in ws : Len(y) <= Len(x)
         IN  Erased(Replace(t, w, <<>>), ws \ {w})

\* the number of placeholders of a type in the stored messages
RECURSIVE PlaceholdersIn(_, _)
PlaceholdersIn(ks, ty) ==
    IF ks = {} THEN 0
    ELSE LET k == CHOOSE x \in ks : TRUE
         IN  CountOccurrences(messages_collection[k].content[1], Placeholder(ty))
             + PlaceholdersIn(ks \ {k}, ty)

\* what C24 asks of the stored message with key k, whose record held the text t
\* with the secrets found
ReplacedWhole(k, t, found) ==
    \E content \in {messages_collection[k].content[1]} :
        /\ \A i \in DOMAIN found : ~Contains(content, found[i].text)
        /\ \A ty \in SecretTypes :
                Contains(content, Placeholder(ty)) => \E i \in DOMAIN found : found[i].type = ty
        /\ found # <<>> => \E i \in DOMAIN found : Contains(content, Placeholder(found[i].type))
        /\ Erased(content, {Placeholder(ty) : ty \in SecretTypes})
                = Erased(t, {found[i].text : i \in DOMAIN found})

\* C24: in a stored message no detected secret text is left and the text
\* around the placeholders is the text around the secrets, a secret that is
\* a fragment of a longer one having left no part of the longer one behind;
\* the placeholders in the message carry the types of the secrets found in
\* its text; and the count a run reports for a type is the number of
\* placeholders of that type in the messages it built.
C24_LongestFirstWholeReplacement ==
    /\ \A k \in DOMAIN messages_collection :
            \E t \in {SourceText(k)} : \E found \in {detect_secrets(t)} : ReplacedWhole(k, t, found)
    /\ \A r \in Runs :
            pc[r] = "exited" =>
                \A ty \in SecretTypes :
                    (IF ty \in DOMAIN redaction_stats[r] THEN redaction_stats[r][ty] ELSE 0)
                        = PlaceholdersIn(DOMAIN messages_collection, ty)

\* C24 witness: the text in which the secret hunter2h is found before the
\* secret hunter2hunter2 was stored with both replaced, and the run counted 2
C24_Witness ==
    /\ tree[1].files[1].lines = <<LineOf(TextNested)>>
    /\ pc[1] = "exited"
    /\ MessageId("s1", 0) \in DOMAIN messages_collection
    /\ Len(detect_secrets(TextNested)) = 2
    /\ Len(detect_secrets(TextNested)[1].text) < Len(detect_secrets(TextNested)[2].text)
    /\ Contains(detect_secrets(TextNested)[2].text, detect_secrets(TextNested)[1].text)
    /\ CountOccurrences(messages_collection[MessageId("s1", 0)].content[1], Placeholder("PASSWORD")) = 2
    /\ redaction_stats[1]["PASSWORD"] = 2

\* C29: the redaction statistics of a run, the sum of what redact_text
\* returned for its texts, have an entry for a type only if a placeholder of
\* that type was put into a text: every count is at least 1.
C29_NoZeroCounts ==
    \A r \in Runs : \A ty \in DOMAIN redaction_stats[r] : redaction_stats[r][ty] >= 1

\* ---- the order of the store operations of one run ----

\* the writes to the primary store and to the search index
WriteOps == {"upsert_project", "upsert_session", "bulk_write", "es_bulk", "update_statistics"}

\* the writes of one session
SessionWriteOps == {"upsert_session", "bulk_write", "es_bulk"}

\* the entries of run r that are operations `ops`
OpsOf(r, ops) == {i \in EntriesOf(r) : oplog[i].op \in ops}

\* the position of the last project upsert of the run before entry i (0: none)
UpsertBefore(r, i) ==
    LET before == {u \in OpsOf(r, {"upsert_project"}) : u < i}
    IN IF before = {} THEN 0 ELSE CHOOSE u \in before : \A v \in before : v <= u

\* the ids of the session files the source tree holds for a project
SessionIdsOf(project_id) ==
    UNION {{tree[k].files[j].stem : j \in DOMAIN tree[k].files}
            : k \in {j \in DOMAIN tree : tree[j].id = project_id}}

\* every write lies between the successful primary connection and the close,
\* and the search index is connected only after the primary store
WithinConnection(r) ==
    /\ \A i \in OpsOf(r, WriteOps) :
        /\ \E c \in OpsOf(r, {"connect_mongodb"}) : c < i /\ oplog[c].ok
        /\ \A c \in OpsOf(r, {"close_mongodb", "close_es"}) : i < c
    /\ \A i \in OpsOf(r, {"connect_es"}) :
        \E c \in OpsOf(r, {"connect_mongodb"}) : c < i /\ oplog[c].ok

\* every session write follows the upsert of the project the session file
\* belongs to, with no other project's upsert and no statistics update of that
\* project in between
SessionWritesFollowUpsert(r) ==
    \A i \in OpsOf(r, SessionWriteOps) :
        \E u \in {UpsertBefore(r, i)} :
            /\ u > 0
            /\ oplog[i].id \in SessionIdsOf(oplog[u].id)
            /\ \A s \in OpsOf(r, {"update_statistics"}) : u < s => i < s

\* the statistics updates of a project follow its upsert, with no other
\* project's upsert in between
StatisticsFollowUpsert(r) ==
    \A s \in OpsOf(r, {"update_statistics"}) :
        \E u \in {UpsertBefore(r, s)} : u > 0 /\ oplog[u].id = oplog[s].id

\* the number of operations `op` of run r on project q
TimesDone(r, op, q) == Cardinality({i \in OpsOf(r, {op}) : oplog[i].id = q})

\* run r went through its project loop and closed
LoopFinished(r) == pc[r] \in {"closed", "exited"} /\ ScanDone(r)

\* C25 as stated: within one run no write happens before the primary
\* connection succeeded or after the close, the search index is connected only
\* after the primary store, the upsert of a project precedes the writes of its
\* sessions and messages, and once the run has ended the statistics of every
\* retained project have been updated exactly once, after the last of its
\* session writes and before the next project's upsert.
C25_FixedOrderOfStoreOperations ==
    \A r \in Runs :
        /\ WithinConnection(r)
        /\ SessionWritesFollowUpsert(r)
        /\ StatisticsFollowUpsert(r)
        /\ LoopFinished(r) =>
            \A k \in DOMAIN projects[r] :
                TimesDone(r, "update_statistics", projects[r][k].id) = 1

\* C25, amended: as above, but the statistics of a retained project are
\* updated exactly once when its upsert succeeded and not at all when it
\* failed; in either case the project is upserted exactly once, and the
\* sessions of a project whose upsert failed are not written. The operations
\* of a run are looked at when it has closed its connections: the record of
\* a run only grows, so a disorder earlier in the run is still there.
C25_FixedOrderWhereUpsertSucceeded ==
    \A r \in Runs :
        pc[r] = "closed" =>
            /\ WithinConnection(r)
            /\ SessionWritesFollowUpsert(r)
            /\ StatisticsFollowUpsert(r)
            /\ \A i \in OpsOf(r, SessionWriteOps \cup {"update_statistics"}) :
                \E u \in {UpsertBefore(r, i)} : u > 0 /\ oplog[u].ok
            /\ \A k \in DOMAIN projects[r] :
                TimesDone(r, "update_statistics", projects[r][k].id) <= 1
            /\ ScanDone(r) =>
                \A k \in DOMAIN projects[r] :
                    LET q == projects[r][k].id IN
                    /\ TimesDone(r, "upsert_project", q) = 1
                    /\ TimesDone(r, "update_statistics", q)
                        = (IF \E u \in OpsOf(r, {"upsert_project"}) : oplog[u].id = q /\ oplog[u].ok
                           THEN 1 ELSE 0)

\* C25 witness: a run has ended in which the upsert of one project failed and
\* a later project was upserted, its session written and its statistics
\* updated, in that order
C25_Witness ==
    \E r \in Runs :
        /\ LoopFinished(r)
        /\ \E f, u, w, s \in EntriesOf(r) :
            /\ f < u /\ u < w /\ w < s
            /\ oplog[f].op = "upsert_project" /\ ~oplog[f].ok
            /\ oplog[u].op = "upsert_project" /\ oplog[u].ok
            /\ oplog[w].op = "bulk_write" /\ oplog[w].ok
            /\ oplog[s].op = "update_statistics" /\ oplog[s].id = oplog[u].id

\* ---- the arithmetic of the run summary ----

RECURSIVE TotalOver(_, _)
\* the sum of f over the finite set D
TotalOver(f, D) ==
    IF D = {} THEN 0
    ELSE LET x == CHOOSE y \in D : TRUE IN f[x] + TotalOver(f, D \ {x})

\* the position of the successful upsert of project q in run r (0: none)
UpsertedAt(r, q) ==
    LET us == {u \in OpsOf(r, {"upsert_project"}) : oplog[u].id = q /\ oplog[u].ok}
    IN IF us = {} THEN 0 ELSE CHOOSE u \in us : TRUE

\* after the project upsert at u, the session document of `id` was upserted
\* and its messages, if it has any, were written
SyncedIn(r, u, id) ==
    /\ \E i \in OpsOf(r, {"upsert_session"}) :
        UpsertBefore(r, i) = u /\ oplog[i].id = id /\ oplog[i].ok
    /\ \A b \in OpsOf(r, {"bulk_write"}) :
        (UpsertBefore(r, b) = u /\ oplog[b].id = id) => oplog[b].ok

\* the message counts of the sessions of the k-th retained project that run r
\* wrote in full, counted in the sessions as scan_sessions builds them from
\* the files with redaction off
MessageCountsSynced(r, k) ==
    LET u == UpsertedAt(r, projects[r][k].id)
        built == scan_sessions(tree, projects[r][k], FALSE, Now(r)).sessions
        synced == IF u = 0 THEN {} ELSE {j \in DOMAIN built : SyncedIn(r, u, built[j].id)}
    IN [n |-> Cardinality(synced),
        messages |-> TotalOver([j \in DOMAIN built |-> Len(built[j].messages)], synced)]

\* run r connected to the primary store and no exception escaped its project loop
RanToEnd(r) ==
    /\ LoopFinished(r)
    /\ \A k \in DOMAIN stats[r].errors : stats[r].errors[k].kind \notin {"connect", "exception"}

\* C26: at the end of a run whose primary connection succeeded and whose
\* project loop no exception escaped, projects_synced <= projects_found,
\* sessions_synced <= sessions_found, sessions_synced counts the sessions
\* written in full and total_messages is the sum of their message counts, and
\* there are (projects_found - projects_synced) + (sessions_found -
\* sessions_synced) error entries. The summary is looked at when sync_all
\* has closed the connections and returns it; nothing changes it afterwards.
C26_RunSummaryArithmetic ==
    \A r \in Runs :
        (pc[r] = "closed" /\ RanToEnd(r)) =>
            LET st == stats[r]
                per == [k \in DOMAIN projects[r] |-> MessageCountsSynced(r, k)]
            IN
            /\ st.projects_found = Len(projects[r])
            /\ st.projects_synced <= st.projects_found
            /\ st.sessions_synced <= st.sessions_found
            /\ st.sessions_synced = TotalOver([k \in DOMAIN per |-> per[k].n], DOMAIN per)
            /\ st.total_messages = TotalOver([k \in DOMAIN per |-> per[k].messages], DOMAIN per)
            /\ Len(st.errors) = (st.projects_found - st.projects_synced)
                                + (st.sessions_found - st.sessions_synced)

\* C26 witness: a run has ended in which one session could not be written and
\* another, with messages, was
C26_Witness ==
    \E r \in Runs :
        /\ RanToEnd(r)
        /\ stats[r].sessions_synced >= 1
        /\ stats[r].total_messages > 0
        /\ stats[r].sessions_synced < stats[r].sessions_found
        /\ Len(stats[r].errors) = 1

\* ---- the statistics persisted against the documents stored ----

\* no write of run r to the primary store failed
NoWriteFailed(r) ==
    \A i \in OpsOf(r, {"upsert_project", "upsert_session", "bulk_write", "update_statistics"}) :
        oplog[i].ok

\* the store is as run r left it: r has ended and no later run has started
AtEndOf(r) == RanToEnd(r) /\ Latest(r)

\* the project document of q counts the documents that carry its project_id
CountsMatchStore(q) ==
    /\ q \in DOMAIN projects_collection
    /\ projects_collection[q].session_count
        = Some(Cardinality({k \in DOMAIN sessions_collection :
                                sessions_collection[k].project_id = q}))
    /\ projects_collection[q].message_count
        = Some(Cardinality({k \in DOMAIN messages_collection :
                                messages_collection[k].project_id = q}))

\* C27: at the end of a run none of whose store writes failed, the
\* message_count and the session_count persisted for every synced project are
\* the numbers of message and session documents of the primary store that
\* carry its project_id, also when two project directories hold a session file
\* of the same base name.
C27_PersistedCountsMatchStore ==
    \A r \in Runs :
        (AtEndOf(r) /\ NoWriteFailed(r)) =>
            \A k \in DOMAIN projects[r] : CountsMatchStore(projects[r][k].id)

\* ---- the session documents against the message documents ----

\* every run so far has ended, having gone through its project loop without a
\* failed write, and at least one has run
AfterSuccessfulRuns ==
    /\ \A r \in Runs : pc[r] = "init" \/ (RanToEnd(r) /\ NoWriteFailed(r))
    /\ \E r \in Runs : pc[r] # "init"

\* the message documents stored under a session id
StoredUnder(id) == {k \in DOMAIN messages_collection : messages_collection[k].session_id = id}

\* C28: after any sequence of successful runs (the session files of the model
\* do not change between runs, which is a case of append-only), the
\* message_count of every session document is the number of message documents
\* stored under its id, and these carry exactly the indices
\* 0 .. message_count - 1 and the project_id of the session document.
C28_SessionCountMatchesMessages ==
    AfterSuccessfulRuns =>
        \A id \in DOMAIN sessions_collection :
            LET doc == sessions_collection[id] IN
            /\ doc.message_count = Cardinality(StoredUnder(id))
            /\ {messages_collection[k].message_index : k \in StoredUnder(id)}
                = 0..(doc.message_count - 1)
            /\ \A k \in StoredUnder(id) : messages_collection[k].project_id = doc.project_id

\* ---- the upward walk of the resolver ----

\* the config of the first m components of the path names an origin remote
\* at a known provider
KnownOrigin(parts, m) ==
    /\ SubSeq(parts, 1, m) \in DOMAIN git_configs
    /\ git_configs[SubSeq(parts, 1, m)].kind = "origin"
    /\ git_configs[SubSeq(parts, 1, m)].host \in DOMAIN HostPatterns

\* the nearest directory, from the path itself up to the one below the root,
\* with such a config (0: none)
NearestKnownOrigin(parts) ==
    LET ms == {m \in 1..Len(parts) : KnownOrigin(parts, m)}
    IN IF ms = {} THEN 0 ELSE CHOOSE m \in ms : \A k \in ms : k <= m

\* what the walk is to return for the path
WalkResult(path) ==
    \E parts \in {PathParts(path)} :
    \E n \in {NearestKnownOrigin(parts)} :
        extract_repo_info_from_git_config(git_configs, path)
            = IF n = 0 THEN <<None, None>>
              ELSE <<Some(git_configs[SubSeq(parts, 1, n)].owner),
                     Some(git_configs[SubSeq(parts, 1, n)].repo)>>

\* C30: for the path of every project directory the walk returns the owner
\* and the repo of the nearest directory, the path itself or an ancestor below
\* the root, whose config has an origin remote at a known provider, whatever
\* the nearer directories hold (no config, a config without origin, an origin
\* at an unknown host, a config that does not parse), and (none, none) only
\* when no directory on the walk has such a config (looked at once a run has
\* resolved the directories).
C30_WalkReturnsNearestOrigin ==
    (\E r \in Runs : ScanDone(r)) =>
        \A k \in DOMAIN tree : WalkResult(tree[k].path)

====
